---- MODULE Spec2Model ----
(***************************************************************************)
(* Churn / risk engine of src/pages/login_externo.py.                      *)
(*                                                                         *)
(* SpecRisk   : RiskEngine (_rolling_means, _to_float, classificar) on a   *)
(*              business-day series that grows one day at a time.          *)
(* SpecLista  : the weekly tab (preparar_dataframe_risco, the risk list,   *)
(*              the loss tables, the union check) and KPIManager.          *)
(* SpecBanco  : the same operations on populations around the hard-coded   *)
(*              bank size.                                                 *)
(* SpecSemanas: the weekly evolution table of the weekly tab.              *)
(* SpecJanelas: RiskEngine on a history longer than the 90-day window.     *)
(* SpecMensal : the monthly closing (baseline, variation against it).      *)
(* SpecLote   : the risk loop of DataManager.preparar_dados over a batch.  *)
(* SpecCache  : the cached load of the churn file (download, fallback).    *)
(* SpecDesvios: the deviations application of src/home.py on its database. *)
(* SpecAdm    : numbering, manager allocation and panel of the same.        *)
(*                                                                         *)
(* Arithmetic is exact: a ratio is a pair <<num, den>> with den > 0 and    *)
(* comparisons are cross-multiplied; thresholds are integer percentages.   *)
(***************************************************************************)
EXTENDS Integers, Sequences, FiniteSets, TLC

VARIABLES
    serie,      \* business-day series up to the reference date (post reindex)
    ctx,        \* raw row cells MM7_BR, MM7_UF, MM7_CIDADE
    limiares,   \* REDUCAO_MEDIO_RISCO / REDUCAO_ALTO_RISCO, in percent
    res,        \* result of RiskEngine.classificar for the current row
    df,         \* the refresh's DataFrame: lab index -> row
    saida,      \* output of the last tab / KPI computation
    cal,        \* calendar inputs of the weekly table (month, today)
    semanas,    \* weekly source data and the selected week
    tabela,     \* the weekly evolution table
    cache,      \* st.cache_data entry, local files and upstream of the churn load
    bd,         \* database of the deviations application (src/home.py)
    sessoes     \* per-user page state of the deviations application

vars == <<serie, ctx, limiares, res, df, saida, cal, semanas, tabela, cache, bd, sessoes>>

----------------------------------------------------------------------------
(* Generic helpers *)

Max2(a, b) == IF a >= b THEN a ELSE b

Min2(a, b) == IF a <= b THEN a ELSE b

RECURSIVE SumSeq(_)
SumSeq(s) == IF s = <<>> THEN 0 ELSE s[1] + SumSeq(Tail(s))

\* mutant: the window is ignored and the whole history is averaged
TailTudo(s, n) == s

\* pandas Series.tail(n): the last min(n, len) values
TailN(s, n) == SubSeq(s, Max2(1, Len(s) - n + 1), Len(s))

\* ratios <<num, den>>, den > 0
RatGeq(a, b) == a[1] * b[2] >= b[1] * a[2]

RatMax(a, b) == IF RatGeq(a, b) THEN a ELSE b

----------------------------------------------------------------------------
(* Bounds and input sets of SpecRisk *)

MaxDias == 4      \* business days with an arbitrary value
MaxSerie == 7     \* total business days (the extra days carry no collection)

Vals == {0, 1, 9}

NaNCell == [k |-> "nan", v |-> 0]
TxtCell == [k |-> "txt", v |-> 0]
Num(n) == [k |-> "num", v |-> n]

CellsBR == {NaNCell, TxtCell, Num(0), Num(18)}
CellsUF == {NaNCell, Num(-3), Num(2), Num(18)}
CellsCidade == {NaNCell, Num(2)}

Limiares == {[medio |-> 30, alto |-> 50],
             [medio |-> 50, alto |-> 80],
             [medio |-> 60, alto |-> 95]}

NoneV == [k |-> "none", v |-> 0]
Vazio == [vazio |-> TRUE]

Severidade(r) ==
    CASE r = "Normal" -> 0
      [] r = "Atencao" -> 1
      [] r = "Moderado" -> 2
      [] r = "Alto" -> 3
      [] r = "Critico" -> 4

----------------------------------------------------------------------------
(* RiskEngine *)

\* mutant: every day without collection is counted, not only the trailing ones
zeros_total(s) == Cardinality({i \in 1..Len(s) : s[i] = 0})

\* zeros_consec: trailing zeros of the series up to the reference date
RECURSIVE zeros_consec(_)
zeros_consec(s) ==
    IF s = <<>> \/ s[Len(s)] # 0 THEN 0
    ELSE 1 + zeros_consec(SubSeq(s, 1, Len(s) - 1))

\* mutant: every point is compared with the MM7 of the reference date
is_queda50_mm7_final(s, idx) ==
    LET janela == TailN(s, 7)
        soma == SumSeq(janela)
    IN  IF soma > 0 THEN 2 * s[idx] * Len(janela) < soma ELSE FALSE

\* _is_queda50(idx): value below half of the MM7 of the data up to idx
is_queda50(s, idx) ==
    LET janela == TailN(SubSeq(s, 1, idx), 7)
        soma == SumSeq(janela)
    IN  IF soma > 0 THEN 2 * s[idx] * Len(janela) < soma ELSE FALSE

quedas50_consec(s) ==
    Cardinality({idx \in Max2(1, Len(s) - 2)..Len(s) : is_queda50(s, idx)})

\* _rolling_means(s, ref_date), ref_date being the last index of s
rolling_means(s) ==
    IF s = <<>> THEN
        [MM7 |-> <<0, 1>>, MM30 |-> <<0, 1>>, MM90 |-> <<0, 1>>, D1 |-> 0,
         HOJE |-> 0, zeros_consec |-> 0, quedas50_consec |-> 0]
    ELSE
        [MM7 |-> <<SumSeq(TailN(s, 7)), Len(TailN(s, 7))>>,
         MM30 |-> <<SumSeq(TailN(s, 30)), Len(TailN(s, 30))>>,
         MM90 |-> <<SumSeq(TailN(s, 90)), Len(TailN(s, 90))>>,
         D1 |-> IF Len(s) > 1 THEN s[Len(s) - 1] ELSE 0,
         HOJE |-> s[Len(s)],
         zeros_consec |-> zeros_consec(s),
         quedas50_consec |-> quedas50_consec(s)]

\* _to_float: NaN and unparseable cells give None
to_float(cell) == IF cell.k = "num" THEN cell ELSE NoneV

\* contexto_mm: the contexts that are present and > 0
contexto_mm(c) ==
    LET brutos == <<to_float(c.MM7_BR), to_float(c.MM7_UF), to_float(c.MM7_CIDADE)>>
    IN  SelectSeq(brutos, LAMBDA mm : mm.k = "num" /\ mm.v > 0)

\* mutant: the "1 -" is lost and the ratio hoje / mm_ctx is taken as the reduction
reducao_sem_complemento(hoje, mm_ctx) ==
    IF mm_ctx > 0 THEN <<Max2(0, hoje), mm_ctx>> ELSE <<0, 1>>

\* mutant: the max(0.0, reducao) floor is lost
reducao_sem_piso(hoje, mm_ctx) ==
    IF mm_ctx > 0 THEN <<mm_ctx - hoje, mm_ctx>> ELSE <<0, 1>>

\* reducao = 1 - hoje / mm_ctx, appended as max(0.0, reducao)
reducao(hoje, mm_ctx) ==
    IF mm_ctx > 0 THEN <<Max2(0, mm_ctx - hoje), mm_ctx>> ELSE <<0, 1>>

RECURSIVE MaxRat(_)
MaxRat(rs) == IF Len(rs) = 1 THEN rs[1] ELSE RatMax(rs[1], MaxRat(Tail(rs)))

maior_reducao(hoje, c) ==
    LET cm == contexto_mm(c)
        reducoes == [i \in 1..Len(cm) |-> reducao(hoje, cm[i].v)]
    IN  IF reducoes # <<>> THEN MaxRat(reducoes) ELSE <<0, 1>>

\* mutant: a zero today counts as absolute zero without any positive context
reducao_zero_sem_contexto(hoje, c) == hoje = 0

reducao_zero_absoluto(hoje, c) ==
    LET cm == contexto_mm(c)
    IN  \E i \in 1..Len(cm) : cm[i].v > 0 /\ hoje = 0

\* mutant: crossing the High threshold is taken as a Critical trigger
risco_diario_alto_critico(maior, zero_abs, zeros, quedas, lim) ==
    IF zero_abs \/ RatGeq(maior, <<lim.alto, 100>>) \/ zeros >= 7 \/ quedas >= 3
    THEN "Critico"
    ELSE IF RatGeq(maior, <<lim.medio, 100>>) THEN "Moderado"
    ELSE IF maior[1] > 0 THEN "Atencao"
    ELSE "Normal"

\* mutant: the Moderate rule is tested before the High rule
risco_diario_ordem_trocada(maior, zero_abs, zeros, quedas, lim) ==
    IF zero_abs \/ RatGeq(maior, <<1, 1>>) \/ zeros >= 7 \/ quedas >= 3 THEN "Critico"
    ELSE IF RatGeq(maior, <<lim.medio, 100>>) THEN "Moderado"
    ELSE IF RatGeq(maior, <<lim.alto, 100>>) THEN "Alto"
    ELSE IF maior[1] > 0 THEN "Atencao"
    ELSE "Normal"

\* the if / elif chain of classificar
risco_diario(maior, zero_abs, zeros, quedas, lim) ==
    IF zero_abs \/ RatGeq(maior, <<1, 1>>) \/ zeros >= 7 \/ quedas >= 3 THEN "Critico"
    ELSE IF RatGeq(maior, <<lim.alto, 100>>) THEN "Alto"
    ELSE IF RatGeq(maior, <<lim.medio, 100>>) THEN "Moderado"
    ELSE IF maior[1] > 0 THEN "Atencao"
    ELSE "Normal"

\* mutant: today's volume is not compared with MM7
recuperacao_sem_hoje(s, m) ==
    LET ultimos_4 == TailN(s, 4)
    IN  /\ Len(ultimos_4) = 4
        /\ 10 * SumSeq(SubSeq(ultimos_4, 1, 3)) * m.MM7[2] < 27 * m.MM7[1]

recuperacao(s, m) ==
    LET ultimos_4 == TailN(s, 4)
    IN  /\ Len(ultimos_4) = 4
        /\ m.HOJE * m.MM7[2] >= m.MM7[1]
        /\ 10 * SumSeq(SubSeq(ultimos_4, 1, 3)) * m.MM7[2] < 27 * m.MM7[1]

classificar(s, c, lim) ==
    IF s = <<>> THEN Vazio
    ELSE
        LET m == rolling_means(s)
            maior == maior_reducao(m.HOJE, c)
            zero_abs == reducao_zero_absoluto(m.HOJE, c)
        IN  [vazio |-> FALSE,
             Vol_Hoje |-> m.HOJE, Vol_D1 |-> m.D1,
             MM7 |-> m.MM7, MM30 |-> m.MM30, MM90 |-> m.MM90,
             maior_reducao |-> maior,
             reducao_zero_absoluto |-> zero_abs,
             zeros_consec |-> m.zeros_consec,
             quedas50_consec |-> m.quedas50_consec,
             Risco_Diario |-> risco_diario(maior, zero_abs, m.zeros_consec,
                                           m.quedas50_consec, lim),
             Recuperacao |-> recuperacao(s, m)]

----------------------------------------------------------------------------
(* SpecRisk: the series grows by one business day, the row is classified *)

NaoUsadoLista == df = <<>> /\ saida = Vazio
NaoUsadoSemanas == cal = Vazio /\ semanas = Vazio /\ tabela = Vazio
NaoUsadoRisk == serie = <<>> /\ ctx = Vazio /\ limiares = Vazio /\ res = Vazio
NaoUsadoApp == cache = Vazio /\ bd = Vazio /\ sessoes = Vazio

InitRisk ==
    /\ serie = <<>>
    /\ ctx \in [MM7_BR : CellsBR, MM7_UF : CellsUF, MM7_CIDADE : CellsCidade]
    /\ limiares \in Limiares
    /\ res = Vazio
    /\ NaoUsadoLista
    /\ NaoUsadoSemanas
    /\ NaoUsadoApp

\* a new business day with v collections; derived results are recomputed
NovoDiaUtil ==
    /\ Len(serie) < MaxDias
    /\ \E v \in Vals : serie' = Append(serie, v)
    /\ res' = Vazio
    /\ UNCHANGED <<ctx, limiares, df, saida, cal, semanas, tabela, cache, bd, sessoes>>

\* a business day without any record: reindex fills it with 0
DiaSemColeta ==
    /\ Len(serie) >= 1
    /\ Len(serie) < MaxSerie
    /\ serie' = Append(serie, 0)
    /\ res' = Vazio
    /\ UNCHANGED <<ctx, limiares, df, saida, cal, semanas, tabela, cache, bd, sessoes>>

Classificar ==
    /\ res = Vazio
    /\ serie # <<>>
    /\ res' = classificar(serie, ctx, limiares)
    /\ UNCHANGED <<serie, ctx, limiares, df, saida, cal, semanas, tabela, cache, bd, sessoes>>

NextRisk == NovoDiaUtil \/ DiaSemColeta \/ Classificar

SpecRisk == InitRisk /\ [][NextRisk]_vars

----------------------------------------------------------------------------
(* Claims on RiskEngine.classificar (SpecRisk) *)

Classificado == res # Vazio /\ ~res.vazio

\* the positive numeric context cells of the row, read from the raw cells
CtxPositivos == {x \in {ctx.MM7_BR, ctx.MM7_UF, ctx.MM7_CIDADE} : x.k = "num" /\ x.v > 0}

CelulasInvalidas == {NaNCell, TxtCell, Num(0), Num(-3)}

Hoje == serie[Len(serie)]

\* the four hard triggers, stated on the series and the raw contexts
GatilhoCritico ==
    \/ Hoje = 0 /\ CtxPositivos # {}
    \/ \E x \in CtxPositivos : x.v - Hoje >= x.v
    \/ Len(serie) >= 7 /\ \A i \in (Len(serie) - 6)..Len(serie) : serie[i] = 0
    \/ res.quedas50_consec >= 3

\* C2: the daily classification is Critical only if a hard trigger holds; a
\* max_reduction at or above the High threshold but below 1.0, with no other
\* trigger, never yields Critical.
Thm_C2 ==
    Classificado =>
        /\ res.Risco_Diario = "Critico" => GatilhoCritico
        /\ (RatGeq(res.maior_reducao, <<limiares.alto, 100>>) /\ ~GatilhoCritico)
              => res.Risco_Diario = "Alto"

\* a High crossing below 1.0 without any hard trigger, classified High
Wit_C2 ==
    /\ Classificado
    /\ RatGeq(res.maior_reducao, <<limiares.alto, 100>>)
    /\ ~RatGeq(res.maior_reducao, <<1, 1>>)
    /\ ~GatilhoCritico
    /\ res.Risco_Diario = "Alto"

SerieComHoje(v) == [serie EXCEPT ![Len(serie)] = v]

\* C3: with the contexts and the earlier history fixed, raising the value at
\* the reference date never raises the daily severity.
Thm_C3 ==
    Classificado =>
        \A v \in Vals \cup {Hoje + 1, 2 * Hoje, 18, 40} :
            v > Hoje =>
                Severidade(classificar(SerieComHoje(v), ctx, limiares).Risco_Diario)
                    <= Severidade(res.Risco_Diario)

\* a classified row whose severity strictly drops when today is raised
Wit_C3 ==
    /\ Classificado
    /\ res.Risco_Diario = "Alto"
    /\ \E v \in Vals : /\ v > Hoje
                       /\ classificar(SerieComHoje(v), ctx, limiares).Risco_Diario = "Normal"

RegraCritico ==
    \/ res.reducao_zero_absoluto
    \/ RatGeq(res.maior_reducao, <<1, 1>>)
    \/ res.zeros_consec >= 7
    \/ res.quedas50_consec >= 3
RegraAlto == 100 * res.maior_reducao[1] >= limiares.alto * res.maior_reducao[2]
RegraModerado == 100 * res.maior_reducao[1] >= limiares.medio * res.maior_reducao[2]
RegraAtencao == res.maior_reducao[1] > 0

\* C4: the daily severity is the first matching rule in the order Critical,
\* High, Moderate, Attention, Normal: exactly one of the five levels, a less
\* severe one only when every more severe rule fails.
Thm_C4 ==
    Classificado =>
        /\ res.Risco_Diario \in {"Critico", "Alto", "Moderado", "Atencao", "Normal"}
        /\ res.Risco_Diario = "Critico" <=> RegraCritico
        /\ res.Risco_Diario = "Alto" <=> (~RegraCritico /\ RegraAlto)
        /\ res.Risco_Diario = "Moderado" <=>
              (~RegraCritico /\ ~RegraAlto /\ RegraModerado)
        /\ res.Risco_Diario = "Atencao" <=>
              (~RegraCritico /\ ~RegraAlto /\ ~RegraModerado /\ RegraAtencao)
        /\ res.Risco_Diario = "Normal" <=>
              (~RegraCritico /\ ~RegraAlto /\ ~RegraModerado /\ ~RegraAtencao)

\* a positive reduction under both thresholds, classified Attention
Wit_C4 ==
    /\ Classificado
    /\ res.Risco_Diario = "Atencao"
    /\ res.maior_reducao[1] > 0
    /\ ~RegraModerado

\* C5: a context MM7 that is absent, unparseable, zero or negative takes no
\* part in the reduction and never sets absolute_zero; when no context is
\* positive, max_reduction is 0 and Critical comes only from zero_streak >= 7
\* or drop50_streak >= 3, even if today = 0.
Thm_C5 ==
    Classificado =>
        /\ CtxPositivos = {} =>
              /\ res.maior_reducao[1] = 0
              /\ ~res.reducao_zero_absoluto
              /\ res.Risco_Diario \in {"Critico", "Normal"}
              /\ res.Risco_Diario = "Critico" <=>
                    (res.zeros_consec >= 7 \/ res.quedas50_consec >= 3)
        /\ \A campo \in {"MM7_BR", "MM7_UF", "MM7_CIDADE"} :
              ctx[campo] \in CelulasInvalidas =>
                  \A outra \in CelulasInvalidas :
                      classificar(serie, [ctx EXCEPT ![campo] = outra], limiares) = res

\* today = 0 under an unparseable, a negative and an absent context: Normal
Wit_C5 ==
    /\ Classificado
    /\ ctx.MM7_BR = TxtCell /\ ctx.MM7_UF = Num(-3) /\ ctx.MM7_CIDADE = NaNCell
    /\ res.Vol_Hoje = 0
    /\ res.zeros_consec < 7
    /\ res.Risco_Diario = "Normal"

\* max(0, 1 - hoje / q) as a ratio
ReducaoEsperada(q) == IF Hoje >= q THEN <<0, 1>> ELSE <<q - Hoje, q>>

RatEq(a, b) == a[1] * b[2] = b[1] * a[2]

\* C6: max_reduction is the maximum, over the contexts whose MM7 is present
\* and > 0, of max(0, 1 - today / MM7), and 0 when there is none; a context
\* below today contributes 0 (today=50, country 100, state 40 gives 0.5).
Thm_C6 ==
    /\ Classificado =>
          IF CtxPositivos = {} THEN res.maior_reducao[1] = 0
          ELSE /\ \E p \in CtxPositivos : RatEq(res.maior_reducao, ReducaoEsperada(p.v))
               /\ \A q \in CtxPositivos : RatGeq(res.maior_reducao, ReducaoEsperada(q.v))
    /\ RatEq(maior_reducao(50, [MM7_BR |-> Num(100), MM7_UF |-> Num(40),
                                MM7_CIDADE |-> NaNCell]), <<1, 2>>)

\* today above the state mean and at half of the country mean
Wit_C6 ==
    /\ Classificado
    /\ res.Vol_Hoje = 9
    /\ ctx.MM7_BR = Num(18) /\ ctx.MM7_UF = Num(2)
    /\ RatEq(res.maior_reducao, <<1, 2>>)

----------------------------------------------------------------------------
(* Weekly tab and KPIs: rows of the refresh's DataFrame *)

SemPerda == ""      \* Classificacao_Perda_V2 is NaN: not a loss

PerdasAntigas == {"Perda Antiga", "Perda Consolidada"}

Portes == {"Grande", "Pequeno"}

DiasVals == {3, 20, 200}

\* <<WoW_Semana_Anterior, WoW_Semana_Atual>>: a drop of exactly 50%, a drop
\* of 25%, no previous volume
WoWPares == {<<4, 2>>, <<4, 3>>, <<0, 2>>}

\* Media_Semanal_2025, Total_Coletas_2024, Controle_Semanal_Estado_Atual
Referencias == {[m25 |-> 8, t24 |-> 0, uf |-> 0], [m25 |-> 0, t24 |-> 416, uf |-> 8]}

\* loss classification of the upstream generator: recent from the tier's
\* floor up to 180 days, old above 180 days (either label)
PisoPerdaRecente(porte) ==
    CASE porte = "Pequeno" -> 30
      [] porte = "Medio" -> 15
      [] porte = "Medio/Grande" -> 15
      [] porte = "Grande" -> 5

ClassificacoesPerda(porte, dias) ==
    IF dias > 180 THEN PerdasAntigas
    ELSE IF dias >= PisoPerdaRecente(porte) THEN {"Perda Recente"}
    ELSE {SemPerda}

Linha(cnpj, porte, dias, classe, rdias, wow, risco, ref) ==
    [CNPJ_Normalizado |-> cnpj,
     Porte |-> porte,
     Dias_Sem_Coleta |-> dias,
     Classificacao_Perda_V2 |-> classe,
     Risco_Por_Dias_Sem_Coleta |-> rdias,
     WoW_Semana_Anterior |-> wow[1],
     WoW_Semana_Atual |-> wow[2],
     Risco_Diario |-> risco,
     Media_Semanal_2025 |-> ref.m25,
     Total_Coletas_2024 |-> ref.t24,
     Controle_Semanal_Estado_Atual |-> ref.uf]

\* the rows a lab can have: CNPJ_Normalizado is unique per row
\* (drop_duplicates in preparar_dados), the loss class follows the days
Linhas(cnpj, RDias, Riscos, Refs) ==
    {Linha(cnpj, p, d, c, rd, w, r, rf) :
        p \in Portes, d \in DiasVals, c \in PerdasAntigas \cup {"Perda Recente", SemPerda},
        rd \in RDias, w \in WoWPares, r \in Riscos, rf \in Refs}

LinhasCoerentes(L) ==
    {r \in L : r.Classificacao_Perda_V2 \in ClassificacoesPerda(r.Porte, r.Dias_Sem_Coleta)}

----------------------------------------------------------------------------
(* Percentages: <<num, den>> stands for 100 * num / den; den = 0 is NaN *)

NaN == <<0, 0>>

notna(p) == p[2] > 0

PctGeq(p, m) == 100 * p[1] >= m * p[2]

PctLt(p, m) == 100 * p[1] < m * p[2]

VARIACAO_QUEDA_FAIXAS ==
    [f \in {"Acima de 50%", "Entre 40% e 50%", "Entre 30% e 40%",
            "Entre 20% e 30%", "Abaixo de 20%"} |->
        CASE f = "Acima de 50%" -> [min |-> Num(50), max |-> NoneV]
          [] f = "Entre 40% e 50%" -> [min |-> Num(40), max |-> Num(50)]
          [] f = "Entre 30% e 40%" -> [min |-> Num(30), max |-> Num(40)]
          [] f = "Entre 20% e 30%" -> [min |-> Num(20), max |-> Num(30)]
          [] f = "Abaixo de 20%" -> [min |-> NoneV, max |-> Num(20)]]

\* cond = notna & (>= min_v) & (< max_v), a None bound being skipped
na_faixa(valor, limites) ==
    /\ notna(valor)
    /\ limites.min.k = "num" => PctGeq(valor, limites.min.v)
    /\ limites.max.k = "num" => PctLt(valor, limites.max.v)

----------------------------------------------------------------------------
(* preparar_dataframe_risco and the filters of the risk list.  A set of rows *)
(* of the DataFrame d is the set of their index labels.                     *)

Queda_Semanal_Pct(r) ==
    IF r.WoW_Semana_Anterior > 0
    THEN <<r.WoW_Semana_Anterior - r.WoW_Semana_Atual, r.WoW_Semana_Anterior>>
    ELSE NaN

Pct_Dif_Media_Historica(r) ==
    IF r.Media_Semanal_2025 > 0
    THEN <<r.WoW_Semana_Atual - r.Media_Semanal_2025, r.Media_Semanal_2025>>
    ELSE NaN

\* Media_Semanal_2024 = Total_Coletas_2024 / 52
Variacao_Media_24_Pct(r) ==
    IF r.Total_Coletas_2024 > 0
    THEN <<52 * r.WoW_Semana_Atual - r.Total_Coletas_2024, r.Total_Coletas_2024>>
    ELSE NaN

Variacao_vs_Estado_Pct(r) ==
    IF r.Controle_Semanal_Estado_Atual > 0
    THEN <<r.WoW_Semana_Atual - r.Controle_Semanal_Estado_Atual,
           r.Controle_Semanal_Estado_Atual>>
    ELSE NaN

\* np.where(serie < 0, -serie, np.nan)
queda_de(v) == IF notna(v) /\ v[1] < 0 THEN <<-v[1], v[2]>> ELSE NaN

Queda_Media_25_Pct(r) == queda_de(Pct_Dif_Media_Historica(r))

Queda_Media_24_Pct(r) == queda_de(Variacao_Media_24_Pct(r))

Queda_Estado_Pct(r) == queda_de(Variacao_vs_Estado_Pct(r))

\* mutant: a drop of exactly 50% no longer counts
queda_valida_estrita(r) ==
    notna(Queda_Semanal_Pct(r))
    /\ 100 * Queda_Semanal_Pct(r)[1] > 50 * Queda_Semanal_Pct(r)[2]

queda_valida(r) == notna(Queda_Semanal_Pct(r)) /\ PctGeq(Queda_Semanal_Pct(r), 50)

cnpjs_perdas(d, S) ==
    {d[i].CNPJ_Normalizado : i \in {j \in S : d[j].Classificacao_Perda_V2 = "Perda Recente"}}
    \cup
    {d[i].CNPJ_Normalizado : i \in {j \in S : d[j].Classificacao_Perda_V2 \in PerdasAntigas}}

\* mutant: the loss ids are not removed
sem_excluir_perdas(d, S, perdas) == S

\* df[~df['CNPJ_Normalizado'].isin(cnpjs_perdas)]
excluir_perdas(d, S, perdas) == {i \in S : d[i].CNPJ_Normalizado \notin perdas}

\* the rows whose Em_Risco is True
Em_Risco(d, S) ==
    excluir_perdas(d,
                   {i \in S : d[i].Risco_Por_Dias_Sem_Coleta \/ queda_valida(d[i])},
                   cnpjs_perdas(d, S))

aplicar_filtro_variacao(d, S, faixas) ==
    IF S = {} \/ faixas = {} THEN S
    ELSE {i \in S : \E f \in faixas :
              na_faixa(Queda_Semanal_Pct(d[i]), VARIACAO_QUEDA_FAIXAS[f])}

\* df_src[coluna] for the three derived drop columns
valor_coluna(r, coluna) ==
    CASE coluna = "Queda_Media_25_Pct" -> Queda_Media_25_Pct(r)
      [] coluna = "Queda_Media_24_Pct" -> Queda_Media_24_Pct(r)
      [] coluna = "Queda_Estado_Pct" -> Queda_Estado_Pct(r)

aplicar_filtro_variacao_generica(d, S, coluna, faixas) ==
    IF S = {} \/ faixas = {} THEN S
    ELSE {i \in S : \E f \in faixas :
              na_faixa(valor_coluna(d[i], coluna), VARIACAO_QUEDA_FAIXAS[f])}

----------------------------------------------------------------------------
(* renderizar_aba_fechamento_semanal: risk list, loss tables, union check *)

\* the literal of the validation "total_union > 5634"
TOTAL_BANCO == 5634

filtrar_porte(d, portes_sel) ==
    IF portes_sel # {} THEN {i \in DOMAIN d : d[i].Porte \in portes_sel}
    ELSE DOMAIN d

renderizar_aba_fechamento_semanal(d, filtros) ==
    LET view == filtrar_porte(d, filtros.portes)
        perdas == cnpjs_perdas(d, view)
        f_wow == aplicar_filtro_variacao(d, view, filtros.variacoes)
        f_25 == aplicar_filtro_variacao_generica(d, f_wow, "Queda_Media_25_Pct", filtros.media25)
        f_24 == aplicar_filtro_variacao_generica(d, f_25, "Queda_Media_24_Pct", filtros.media24)
        f_uf == aplicar_filtro_variacao_generica(d, f_24, "Queda_Estado_Pct", filtros.estado)
        df_risco_filtrado == excluir_perdas(d, f_uf, perdas)
        df_perda_recente == {i \in view : d[i].Classificacao_Perda_V2 = "Perda Recente"}
        df_antigas == {i \in view : d[i].Classificacao_Perda_V2 \in PerdasAntigas}
        total_union == Cardinality({d[i].CNPJ_Normalizado :
                                       i \in df_risco_filtrado \cup df_perda_recente \cup df_antigas})
    IN  [filtros |-> filtros,
         Em_Risco |-> Em_Risco(d, view),
         lista_risco |-> df_risco_filtrado,
         perda_recente |-> df_perda_recente,
         perda_antiga |-> df_antigas,
         total_union |-> total_union,
         alerta_banco |-> total_union > TOTAL_BANCO]

----------------------------------------------------------------------------
(* KPIManager.calcular_kpis *)

\* mutant: the cut at 90 days without collection is lost
sem_recorte_90(d) == DOMAIN d

df_recent(d) == {i \in DOMAIN d : d[i].Dias_Sem_Coleta <= 90}

contar(d, S, rotulo) == Cardinality({i \in S : d[i].Risco_Diario = rotulo})

calcular_kpis(d) ==
    LET rec == df_recent(d)
        labs_normal == contar(d, rec, "Normal")
        labs_atencao == contar(d, rec, "Atencao")
        labs_moderado == contar(d, rec, "Moderado")
        labs_alto == contar(d, rec, "Alto")
        labs_critico == contar(d, rec, "Critico")
    IN  [total_labs |-> Cardinality(rec),
         labs_baixo_risco |-> labs_normal + labs_atencao,
         labs_medio_risco |-> labs_moderado,
         labs_alto_risco |-> labs_alto + labs_critico,
         labs_em_risco |-> labs_moderado + labs_alto + labs_critico,
         labs_critico |-> labs_critico]

----------------------------------------------------------------------------
(* SpecLista: one refresh of two labs; the KPIs are computed, then the tab  *)
(* is rendered under any choice of the filters, again and again.            *)

LinhasLab1 == LinhasCoerentes(Linhas(101, BOOLEAN, {"Critico", "Normal"}, Referencias))

LinhasLab2 ==
    LinhasCoerentes(Linhas(102, BOOLEAN, {"Alto"}, {[m25 |-> 8, t24 |-> 0, uf |-> 0]}))

SemFaixa == {}

\* variacoes: the default of the multiselect, none, two lower ranges;
\* at most one of the three other drop filters is active
FiltrosLista ==
    {[variacoes |-> v, media25 |-> g[1], media24 |-> g[2], estado |-> g[3], portes |-> p] :
        v \in {{"Acima de 50%"}, SemFaixa, {"Entre 20% e 30%", "Entre 40% e 50%"}},
        g \in {<<SemFaixa, SemFaixa, SemFaixa>>,
               <<{"Acima de 50%"}, SemFaixa, SemFaixa>>,
               <<SemFaixa, {"Acima de 50%"}, SemFaixa>>,
               <<SemFaixa, SemFaixa, {"Entre 30% e 40%", "Acima de 50%"}>>},
        p \in {SemFaixa, {"Grande"}}}

SaidaInicial == [kpi |-> Vazio, semanal |-> Vazio]

InitLista ==
    /\ \E a \in LinhasLab1, b \in LinhasLab2 : df = <<a, b>>
    /\ saida = SaidaInicial
    /\ NaoUsadoRisk
    /\ NaoUsadoSemanas
    /\ NaoUsadoApp

CalcularKPIs ==
    /\ saida.kpi = Vazio
    /\ saida' = [saida EXCEPT !.kpi = calcular_kpis(df)]
    /\ UNCHANGED <<serie, ctx, limiares, res, df, cal, semanas, tabela, cache, bd, sessoes>>

RenderizarAba(Filtros) ==
    /\ saida.kpi # Vazio
    /\ \E f \in Filtros :
          saida' = [saida EXCEPT !.semanal = renderizar_aba_fechamento_semanal(df, f)]
    /\ UNCHANGED <<serie, ctx, limiares, res, df, cal, semanas, tabela, cache, bd, sessoes>>

RenderizarLista == RenderizarAba(FiltrosLista)

NextLista == CalcularKPIs \/ RenderizarLista

SpecLista == InitLista /\ [][NextLista]_vars

----------------------------------------------------------------------------
(* SpecBanco: the same operations on a refresh whose population is around   *)
(* the literal of the union check.  Rows 1..a are recent losses, the next b *)
(* rows old losses, the others are not losses; one row in three is of the   *)
(* small tier and every other row halved its weekly volume.                 *)

TamanhosBanco == {5634, 5635, 5640}

RecentesBanco == {0, 1, 3000}

AntigasBanco == {0, 2, 2000}

LinhaBanco(i, a, b) ==
    Linha(i,
          IF i % 3 = 0 /\ i > a THEN "Pequeno" ELSE "Grande",
          IF i <= a THEN 20 ELSE IF i <= a + b THEN 200 ELSE 3,
          IF i <= a THEN "Perda Recente" ELSE IF i <= a + b THEN "Perda Antiga" ELSE SemPerda,
          FALSE,
          IF i % 2 = 0 THEN <<4, 2>> ELSE <<4, 3>>,
          IF i % 2 = 0 THEN "Critico" ELSE "Normal",
          [m25 |-> 8, t24 |-> 0, uf |-> 0])

FiltrosBanco ==
    {[variacoes |-> v, media25 |-> {}, media24 |-> {}, estado |-> {}, portes |-> p] :
        v \in {{"Acima de 50%"}, SemFaixa}, p \in {SemFaixa, {"Grande"}}}

InitBanco ==
    /\ \E n \in TamanhosBanco, a \in RecentesBanco, b \in AntigasBanco :
          df = [i \in 1..n |-> LinhaBanco(i, a, b)]
    /\ saida = SaidaInicial
    /\ NaoUsadoRisk
    /\ NaoUsadoSemanas
    /\ NaoUsadoApp

RenderizarBanco == RenderizarAba(FiltrosBanco)

NextBanco == CalcularKPIs \/ RenderizarBanco

SpecBanco == InitBanco /\ [][NextBanco]_vars

----------------------------------------------------------------------------
(* Calendar: a date is its number of days since Monday 2024-01-01 *)

Bissexto(y) == (y % 4 = 0 /\ y % 100 # 0) \/ y % 400 = 0

DiasNoAno(y) == IF Bissexto(y) THEN 366 ELSE 365

\* calendar.monthrange(y, m)[1]
monthrange(y, m) ==
    CASE m \in {1, 3, 5, 7, 8, 10, 12} -> 31
      [] m \in {4, 6, 9, 11} -> 30
      [] m = 2 -> IF Bissexto(y) THEN 29 ELSE 28

RECURSIVE InicioDoAno(_)
InicioDoAno(y) == IF y <= 2024 THEN 0 ELSE InicioDoAno(y - 1) + DiasNoAno(y - 1)

RECURSIVE DiasAntesDoMes(_, _)
DiasAntesDoMes(y, m) ==
    IF m = 1 THEN 0 ELSE DiasAntesDoMes(y, m - 1) + monthrange(y, m - 1)

\* datetime(y, m, d)
Data(y, m, d) == InicioDoAno(y) + DiasAntesDoMes(y, m) + d - 1

AnoDe(n) == CHOOSE y \in 2024..2027 : InicioDoAno(y) <= n /\ n < InicioDoAno(y + 1)

\* date.isocalendar(): the ISO year is the year of the week's Thursday
isocalendar(n) ==
    LET quinta == n - (n % 7) + 3
        y == AnoDe(quinta)
    IN  <<y, ((quinta - InicioDoAno(y)) \div 7) + 1>>

\* datetime.fromisocalendar(y, w, dia): week 1 is the week of January 4th
fromisocalendar(y, w, dia) ==
    LET jan4 == InicioDoAno(y) + 3
    IN  jan4 - (jan4 % 7) + (w - 1) * 7 + dia - 1

ChaveMenor(a, b) == a[1] < b[1] \/ (a[1] = b[1] /\ a[2] < b[2])

\* sorted(keys)
RECURSIVE Ordenar(_)
Ordenar(S) ==
    IF S = {} THEN <<>>
    ELSE LET m == CHOOSE x \in S : \A y \in S : ~ChaveMenor(y, x)
         IN  <<m>> \o Ordenar(S \ {m})

Posicao(seq, x) == CHOOSE n \in 1..Len(seq) : seq[n] = x

----------------------------------------------------------------------------
(* Weekly evolution table.  A week is keyed by <<iso_year, iso_week>>; the  *)
(* weeks of a source are a function from keys to their record.              *)

Hoje_n == Data(cal.hoje.ano, cal.hoje.mes, cal.hoje.dia)

SemanaZerada == [volume_total |-> 0, volume_semana_anterior |-> 0, fechada |-> FALSE]

\* fallback of calcular_metricas_fechamento_semanal: weeks rebuilt from the
\* column Semanas_Mes_Atual
agregar_semanas(lab) ==
    [k \in DOMAIN lab |->
        [volume_total |-> lab[k].volume_util,
         volume_semana_anterior |-> lab[k].volume_semana_anterior,
         fechada |-> lab[k].fechada]]

semanas_detalhes(meta, lab) == IF DOMAIN meta # {} THEN meta ELSE agregar_semanas(lab)

\* index of the default option: last closed week, else the last week
idx_default(detalhes) ==
    LET opcoes == Ordenar(DOMAIN detalhes)
        fechadas_idx == {i \in 1..Len(opcoes) : detalhes[opcoes[i]].fechada}
    IN  IF fechadas_idx # {} THEN CHOOSE i \in fechadas_idx : \A j \in fechadas_idx : j <= i
        ELSE Len(opcoes)

allowed_keys(detalhes, sel_key) ==
    LET opcoes == Ordenar(DOMAIN detalhes)
        idx_sel == Posicao(opcoes, sel_key)
    IN  IF detalhes[sel_key].fechada
        THEN {sel_key} \cup (IF idx_sel > 1 THEN {opcoes[idx_sel - 1]} ELSE {})
        ELSE {}

complementar(indexadas, lab, allowed) ==
    LET do_df == {k \in DOMAIN lab : allowed = {} \/ k \in allowed}
    IN  [k \in DOMAIN indexadas \cup do_df |->
            LET entrada == IF k \in DOMAIN indexadas THEN indexadas[k] ELSE SemanaZerada
            IN  IF k \in do_df
                THEN [volume_total |-> entrada.volume_total + lab[k].volume_util,
                      volume_semana_anterior |->
                          entrada.volume_semana_anterior + lab[k].volume_semana_anterior,
                      fechada |-> entrada.fechada \/ lab[k].fechada]
                ELSE entrada]

\* the ISO weeks of the days of the month
semanas_do_mes(ano, mes) ==
    {isocalendar(n) : n \in Data(ano, mes, 1)..Data(ano, mes, monthrange(ano, mes))}

\* mutant: the weeks of the month are never added
expected_keys_sem_mes(allowed, ano, mes) == allowed

expected_keys(allowed, ano, mes) ==
    IF allowed = {} THEN semanas_do_mes(ano, mes) ELSE allowed

garantir_semanas(indexadas, esperadas, hoje_n) ==
    [k \in DOMAIN indexadas \cup esperadas |->
        IF k \in DOMAIN indexadas THEN indexadas[k]
        ELSE [volume_total |-> 0, volume_semana_anterior |-> 0,
              fechada |-> fromisocalendar(k[1], k[2], 7) < hoje_n]]

\* mutant: the week before is sought in the same ISO year only
prev_key_mesmo_ano(k) == <<k[1], k[2] - 1>>

prev_key(k) == isocalendar(fromisocalendar(k[1], k[2], 1) - 7)

\* 0.0 / 100.0 without a previous volume, else (atual - ant) / ant * 100
\* mutant: a week that follows an empty week is reported as unchanged
variacao_pct_sem_100(vol_atual, vol_ant) ==
    IF vol_ant = 0 THEN <<0, 1>> ELSE <<vol_atual - vol_ant, vol_ant>>

variacao_pct(vol_atual, vol_ant) ==
    IF vol_ant = 0 THEN (IF vol_atual = 0 THEN <<0, 1>> ELSE <<1, 1>>)
    ELSE <<vol_atual - vol_ant, vol_ant>>

linha_semana(k, info, vol_ant) ==
    [iso_year |-> k[1], iso_week |-> k[2],
     Volume_Util |-> info.volume_total,
     Volume_Anterior |-> vol_ant,
     WoW |-> variacao_pct(info.volume_total, vol_ant),
     fechada |-> info.fechada]

vol_ant_da_semana(indexadas, k, vol_ant) ==
    IF vol_ant = 0 /\ prev_key(k) \in DOMAIN indexadas
                   /\ indexadas[prev_key(k)].volume_total # 0
    THEN indexadas[prev_key(k)].volume_total
    ELSE vol_ant

montar_tabela(indexadas) ==
    LET chaves == Ordenar(DOMAIN indexadas)
    IN  [n \in 1..Len(chaves) |->
            linha_semana(chaves[n], indexadas[chaves[n]],
                         vol_ant_da_semana(indexadas, chaves[n],
                                           indexadas[chaves[n]].volume_semana_anterior))]

\* _aplicar_semana on the row of one lab: the volumes of the selected closed
\* week and of the week compared with it; an open selection leaves the row
\* as it is
aplicar_semana(lab, detalhes, sel_key, wow_atual, wow_anterior) ==
    IF ~detalhes[sel_key].fechada
    THEN [aplicada |-> FALSE,
          WoW_Semana_Atual |-> wow_atual, WoW_Semana_Anterior |-> wow_anterior]
    ELSE LET opcoes == Ordenar(DOMAIN detalhes)
             idx_sel == Posicao(opcoes, sel_key)
             anterior == IF idx_sel > 1 THEN opcoes[idx_sel - 1] ELSE prev_key(sel_key)
             vol_atual == IF sel_key \in DOMAIN lab THEN lab[sel_key].volume_util ELSE 0
             vol_ant == IF sel_key \in DOMAIN lab
                        THEN lab[sel_key].volume_semana_anterior ELSE 0
         IN  [aplicada |-> TRUE,
              WoW_Semana_Atual |-> vol_atual,
              WoW_Semana_Anterior |->
                  IF vol_ant = 0 /\ anterior \in DOMAIN lab /\ lab[anterior].volume_util # 0
                  THEN lab[anterior].volume_util
                  ELSE vol_ant]

\* the column Variacao_Semanal_Pct of the tab's DataFrame: null unless the
\* previous volume is positive
Variacao_Semanal_Pct(wow) ==
    IF wow.WoW_Semana_Anterior > 0
    THEN <<wow.WoW_Semana_Atual - wow.WoW_Semana_Anterior, wow.WoW_Semana_Anterior>>
    ELSE NaN

\* "Evolucao do Mes" of the weekly tab, for the selected option sel_key
tabela_da_aba(meta, lab, sel_key, wow_atual, wow_anterior, hoje) ==
    LET detalhes == semanas_detalhes(meta, lab)
        allowed == allowed_keys(detalhes, sel_key)
        met_detalhes == IF allowed # {} THEN [k \in DOMAIN detalhes \cap allowed |-> detalhes[k]]
                        ELSE detalhes
        indexadas == complementar(met_detalhes, lab, allowed)
        garantidas == garantir_semanas(indexadas, expected_keys(allowed, hoje.ano, hoje.mes),
                                       Data(hoje.ano, hoje.mes, hoje.dia))
        exibidas == IF allowed # {} THEN [k \in DOMAIN garantidas \cap allowed |-> garantidas[k]]
                    ELSE garantidas
    IN  [origem |-> "aba", sel |-> sel_key,
         sel_padrao |-> Ordenar(DOMAIN detalhes)[idx_default(detalhes)],
         allowed |-> allowed, exibida |-> TRUE,
         wow_lab |-> aplicar_semana(lab, detalhes, sel_key, wow_atual, wow_anterior),
         Variacao_Semanal_Pct |->
             Variacao_Semanal_Pct(aplicar_semana(lab, detalhes, sel_key,
                                                 wow_atual, wow_anterior)),
         linhas |-> montar_tabela(exibidas)]

SemTabela(origem) ==
    [origem |-> origem, sel |-> <<0, 0>>, sel_padrao |-> <<0, 0>>, allowed |-> {},
     exibida |-> FALSE, linhas |-> <<>>]

\* the same table of one lab in main: prev_vol carries the previous row
RECURSIVE linhas_do_lab(_, _, _, _)
linhas_do_lab(indexadas, chaves, n, prev_vol) ==
    IF n > Len(chaves) THEN <<>>
    ELSE LET info == indexadas[chaves[n]]
             vol_ant_data == info.volume_semana_anterior
             vol_ant == IF vol_ant_data # 0 THEN vol_ant_data ELSE prev_vol
         IN  <<linha_semana(chaves[n], info, vol_ant_da_semana(indexadas, chaves[n], vol_ant))>>
             \o linhas_do_lab(indexadas, chaves, n + 1, info.volume_total)

tabela_do_lab(lab, wow_anterior, hoje) ==
    LET indexadas == complementar(<<>>, lab, {})
        garantidas == garantir_semanas(indexadas, semanas_do_mes(hoje.ano, hoje.mes),
                                       Data(hoje.ano, hoje.mes, hoje.dia))
    IN  [origem |-> "lab", sel |-> <<0, 0>>, sel_padrao |-> <<0, 0>>, allowed |-> {},
         exibida |-> TRUE,
         linhas |-> linhas_do_lab(garantidas, Ordenar(DOMAIN garantidas), 1, wow_anterior)]

----------------------------------------------------------------------------
(* SpecSemanas: the sources hold some of the weeks of the current month     *)
(* that have begun; the tab's table is rendered for any option of the week  *)
(* selector, and the table of the lab is rendered in main.                  *)

Hojes == {[ano |-> 2025, mes |-> 2, dia |-> 12],
          [ano |-> 2025, mes |-> 2, dia |-> 16],
          [ano |-> 2024, mes |-> 12, dia |-> 18],
          [ano |-> 2025, mes |-> 3, dia |-> 3],
          [ano |-> 2024, mes |-> 12, dia |-> 31]}

\* the sources hold at most this many of the most recent weeks
MaxSemanasFonte == 4

\* the ISO weeks whose Monday..Sunday interval meets the month
SemanasQueCruzamOMes(ano, mes) ==
    {k \in (2024..2026) \X (1..53) :
        /\ isocalendar(fromisocalendar(k[1], k[2], 1)) = k
        /\ fromisocalendar(k[1], k[2], 1) <= Data(ano, mes, monthrange(ano, mes))
        /\ fromisocalendar(k[1], k[2], 7) >= Data(ano, mes, 1)}

SemanasIniciadas(h) ==
    LET iniciadas == {k \in SemanasQueCruzamOMes(h.ano, h.mes) :
                         fromisocalendar(k[1], k[2], 1) <= Data(h.ano, h.mes, h.dia)}
    IN  {k \in iniciadas :
            Cardinality({j \in iniciadas : ChaveMenor(k, j)}) < MaxSemanasFonte}

\* closed flag written by the upstream generator: the week's Friday is
\* strictly before today
fechada_na_fonte(k, h) == fromisocalendar(k[1], k[2], 5) < Data(h.ano, h.mes, h.dia)

\* <<volume_total, volume_semana_anterior>> of a week of fechamentos_meta.json
VolumesMeta == {<<6, 0>>, <<3, 6>>}

WoWAnteriorDoLab == {0, 4}

\* the lab's WoW_Semana_Atual beside a given WoW_Semana_Anterior
WoWAtualDoLab(wow_anterior) == IF wow_anterior = 0 THEN {0, 5} ELSE {2}

InitSemanas ==
    /\ \E h \in Hojes :
         \E K \in SUBSET SemanasIniciadas(h), L \in SUBSET SemanasIniciadas(h) :
           \E vm \in [K -> VolumesMeta], wa \in WoWAnteriorDoLab :
             \E wt \in WoWAtualDoLab(wa) :
              /\ cal = [hoje |-> h]
              /\ semanas =
                   [meta |-> [k \in K |->
                                 [volume_total |-> vm[k][1],
                                  volume_semana_anterior |-> vm[k][2],
                                  fechada |-> fechada_na_fonte(k, h)]],
                    lab |-> [k \in L |->
                                 [volume_util |-> 2,
                                  volume_semana_anterior |-> 0,
                                  fechada |-> fechada_na_fonte(k, h)]],
                    wow_atual |-> wt,
                    wow_anterior |-> wa]
    /\ tabela = Vazio
    /\ NaoUsadoRisk
    /\ NaoUsadoLista
    /\ NaoUsadoApp

\* the tab with the option sel_key selected; without any week the tab shows
\* "Detalhes semanais indisponiveis"
RenderizarEvolucao ==
    /\ LET detalhes == semanas_detalhes(semanas.meta, semanas.lab)
       IN  IF DOMAIN detalhes = {}
           THEN tabela' = SemTabela("aba")
           ELSE \E sel_key \in DOMAIN detalhes :
                   tabela' = tabela_da_aba(semanas.meta, semanas.lab, sel_key,
                                           semanas.wow_atual, semanas.wow_anterior,
                                           cal.hoje)
    /\ UNCHANGED <<serie, ctx, limiares, res, df, saida, cal, semanas, cache, bd, sessoes>>

\* main: the table of the selected lab, only when the lab has weeks
EvolucaoDoLab ==
    /\ tabela' = IF DOMAIN semanas.lab = {} THEN SemTabela("lab")
                 ELSE tabela_do_lab(semanas.lab, semanas.wow_anterior, cal.hoje)
    /\ UNCHANGED <<serie, ctx, limiares, res, df, saida, cal, semanas, cache, bd, sessoes>>

NextSemanas == RenderizarEvolucao \/ EvolucaoDoLab

SpecSemanas == InitSemanas /\ [][NextSemanas]_vars

----------------------------------------------------------------------------
(* Claims on the weekly tab and the KPIs (SpecLista) *)

Renderizado == saida # Vazio /\ saida.semanal # Vazio

KpiCalculado == saida # Vazio /\ saida.kpi # Vazio

TemPerda(i) == df[i].Classificacao_Perda_V2 # SemPerda

NaVisao(i) == i \in filtrar_porte(df, saida.semanal.filtros.portes)

SemFiltroDeQueda(f) == f.media25 = {} /\ f.media24 = {} /\ f.estado = {}

\* C1: after any render, under any choice of the filters, no lab whose loss
\* classification is non-null is in the risk list or flagged Em_Risco, and
\* no id of the risk list is the id of a lab shown in a loss table.
Thm_C1 ==
    Renderizado =>
        \A i \in DOMAIN df : TemPerda(i) =>
            /\ i \notin saida.semanal.lista_risco
            /\ i \notin saida.semanal.Em_Risco
            /\ \A j \in saida.semanal.lista_risco \cup saida.semanal.Em_Risco :
                  df[j].CNPJ_Normalizado # df[i].CNPJ_Normalizado

\* no filter selected: a recent loss that halved and meets the days rule is
\* left out while the other lab is listed
Wit_C1 ==
    /\ Renderizado
    /\ saida.semanal.filtros.variacoes = {} /\ SemFiltroDeQueda(saida.semanal.filtros)
    /\ df[1].Classificacao_Perda_V2 = "Perda Recente"
    /\ df[1].Risco_Por_Dias_Sem_Coleta /\ queda_valida(df[1])
    /\ saida.semanal.perda_recente = {1}
    /\ saida.semanal.lista_risco = {2}

CriticoPerdaAntiga(i) ==
    df[i].Risco_Diario = "Critico" /\ df[i].Classificacao_Perda_V2 \in PerdasAntigas

NaoAntigasCom(riscos) ==
    {i \in DOMAIN df : df[i].Risco_Diario \in riscos
                       /\ df[i].Classificacao_Perda_V2 \notin PerdasAntigas}

QuedaDeMetade(i) ==
    /\ df[i].WoW_Semana_Anterior > 0
    /\ 2 * (df[i].WoW_Semana_Anterior - df[i].WoW_Semana_Atual) >= df[i].WoW_Semana_Anterior

RegraDeRisco == {i \in DOMAIN df : NaVisao(i) /\ ~TemPerda(i)
                                   /\ (QuedaDeMetade(i) \/ df[i].Risco_Por_Dias_Sem_Coleta)}

----------------------------------------------------------------------------
(* Claim on the union check (SpecBanco) *)

\* distinct ids of the refresh
TotalMonitorado == Cardinality({df[i].CNPJ_Normalizado : i \in DOMAIN df})

\* C9 as stated: the alert is raised exactly when the number of distinct ids
\* in the risk list and the two loss tables exceeds the number of labs of
\* that refresh.
CE_C9 ==
    Renderizado =>
        (saida.semanal.alerta_banco <=> saida.semanal.total_union > TotalMonitorado)

----------------------------------------------------------------------------
(* Claim on the weekly evolution table (SpecSemanas) *)

TabelaFeita == tabela # Vazio

ChavesDaTabela == {<<tabela.linhas[n].iso_year, tabela.linhas[n].iso_week>> :
                      n \in 1..Len(tabela.linhas)}

SemanasDoMesDeHoje == SemanasQueCruzamOMes(cal.hoje.ano, cal.hoje.mes)

\* the weeks for which the source of the rendered table has data
SemanasNaFonte ==
    IF tabela.origem = "aba" THEN DOMAIN semanas.meta \cup DOMAIN semanas.lab
    ELSE DOMAIN semanas.lab

\* one row per key, in increasing order
UmaLinhaPorSemana ==
    \A n \in 1..(Len(tabela.linhas) - 1) :
        ChaveMenor(<<tabela.linhas[n].iso_year, tabela.linhas[n].iso_week>>,
                   <<tabela.linhas[n + 1].iso_year, tabela.linhas[n + 1].iso_week>>)

\* a week without source data: volume 0, closed iff its Sunday is before today
SemanasSemDadosZeradas ==
    \A n \in 1..Len(tabela.linhas) :
        LET r == tabela.linhas[n]
            k == <<r.iso_year, r.iso_week>>
        IN  k \notin SemanasNaFonte =>
               /\ r.Volume_Util = 0
               /\ r.fechada <=> (fromisocalendar(k[1], k[2], 7) < Hoje_n)

TabelaDoMesInteiro ==
    /\ tabela.exibida
    /\ ChavesDaTabela = SemanasDoMesDeHoje
    /\ UmaLinhaPorSemana
    /\ SemanasSemDadosZeradas

\* C10 as stated: whatever week is selected, a weekly table that is shown has
\* exactly one row per ISO week that intersects the month, the weeks without
\* source data with volume 0 and a closed flag derived from the date.
CE_C10 == (TabelaFeita /\ tabela.exibida) => TabelaDoMesInteiro

\* C10: the weekly table has exactly one row per ISO week intersecting the
\* current month, the weeks without source data with volume 0 and a closed
\* flag derived from the date, when the source has at least one week and,
\* in the weekly tab, the selected week is not closed; when the selected
\* week of the tab is closed the table holds only that week and the option
\* before it; when the source has no week no table is shown.
Thm_C10 ==
    TabelaFeita =>
        /\ tabela.exibida <=> SemanasNaFonte # {}
        /\ (tabela.exibida /\ tabela.allowed = {}) => TabelaDoMesInteiro
        /\ (tabela.exibida /\ tabela.allowed # {}) =>
              /\ tabela.origem = "aba"
              /\ semanas_detalhes(semanas.meta, semanas.lab)[tabela.sel].fechada
              /\ ChavesDaTabela = tabela.allowed
              /\ tabela.sel \in tabela.allowed
              /\ Cardinality(tabela.allowed) <= 2
              /\ UmaLinhaPorSemana
        /\ (tabela.exibida /\ tabela.origem = "aba"
               /\ ~semanas_detalhes(semanas.meta, semanas.lab)[tabela.sel].fechada)
              => tabela.allowed = {}
        /\ (tabela.exibida /\ tabela.origem = "lab") => tabela.allowed = {}

\* February 2025 meets 5 ISO weeks; the sources hold 3 of them and the
\* selected week, the current one, is still open: 5 rows, the 2 weeks to come
\* with volume 0 and not closed
Wit_C10 ==
    /\ TabelaFeita /\ tabela.origem = "aba" /\ tabela.exibida
    /\ cal.hoje = [ano |-> 2025, mes |-> 2, dia |-> 12]
    /\ DOMAIN semanas.meta = {<<2025, 5>>, <<2025, 6>>, <<2025, 7>>}
    /\ tabela.sel = <<2025, 7>>
    /\ Len(tabela.linhas) = 5
    /\ tabela.linhas[4].iso_week = 8 /\ tabela.linhas[4].Volume_Util = 0
    /\ ~tabela.linhas[4].fechada
    /\ tabela.linhas[5].iso_week = 9 /\ tabela.linhas[5].Volume_Util = 0

\* C11 as stated: every row of a weekly table is flagged closed exactly when
\* the Friday of its ISO week is strictly before today.
CE_C11 ==
    (TabelaFeita /\ tabela.exibida) =>
        \A n \in 1..Len(tabela.linhas) :
            tabela.linhas[n].fechada
               <=> (fromisocalendar(tabela.linhas[n].iso_year,
                                    tabela.linhas[n].iso_week, 5) < Hoje_n)

\* the ISO week that ends the day before week k begins
SemanaAnteriorISO(k) ==
    CHOOSE j \in (2024..2026) \X (1..53) :
        /\ isocalendar(fromisocalendar(j[1], j[2], 1)) = j
        /\ fromisocalendar(j[1], j[2], 1) + 7 = fromisocalendar(k[1], k[2], 1)

ChaveDaLinha(n) == <<tabela.linhas[n].iso_year, tabela.linhas[n].iso_week>>

VolumeDaSemana(k) ==
    IF k \in ChavesDaTabela
    THEN tabela.linhas[CHOOSE n \in 1..Len(tabela.linhas) : ChaveDaLinha(n) = k].Volume_Util
    ELSE 0

\* the supplied previous-week field of week k, as the rendered table sums it
CampoAnterior(k) ==
    LET detalhes == semanas_detalhes(semanas.meta, semanas.lab)
        da_aba == IF tabela.origem = "aba" /\ k \in DOMAIN detalhes
                  THEN detalhes[k].volume_semana_anterior ELSE 0
        do_df == IF k \in DOMAIN semanas.lab
                 THEN semanas.lab[k].volume_semana_anterior ELSE 0
    IN  da_aba + do_df

\* the weeks for which the sources hold a volume
ComVolumeNaFonte ==
    {k \in ChavesDaTabela : k \in DOMAIN semanas.meta \cup DOMAIN semanas.lab /\ VolumeDaSemana(k) > 0}

SegueRegraWoW(p, atual, anterior) ==
    IF anterior > 0
    THEN p[2] # 0 /\ p[1] * anterior = (atual - anterior) * p[2]
    ELSE IF atual = 0 THEN p[2] # 0 /\ p[1] = 0
    ELSE p[2] # 0 /\ p[1] = p[2]

LinhasSeguemRegraWoW ==
    \A n \in 1..Len(tabela.linhas) :
        SegueRegraWoW(tabela.linhas[n].WoW, tabela.linhas[n].Volume_Util,
                      tabela.linhas[n].Volume_Anterior)

----------------------------------------------------------------------------
(* SpecJanelas: one lab whose history outgrows the three windows *)

MaxHistorico == 91   \* business days from the first record to the reference date

InitJanelas ==
    /\ serie = <<>>
    /\ ctx = [MM7_BR |-> Num(18), MM7_UF |-> NaNCell, MM7_CIDADE |-> Num(2)]
    /\ limiares = [medio |-> 30, alto |-> 50]
    /\ res = Vazio
    /\ NaoUsadoLista
    /\ NaoUsadoSemanas
    /\ NaoUsadoApp

\* a business day without any record, in a long history
DiaSemColetaLongo ==
    /\ Len(serie) >= 1
    /\ Len(serie) < MaxHistorico
    /\ serie' = Append(serie, 0)
    /\ res' = Vazio
    /\ UNCHANGED <<ctx, limiares, df, saida, cal, semanas, tabela, cache, bd, sessoes>>

NextJanelas == NovoDiaUtil \/ DiaSemColetaLongo \/ Classificar

SpecJanelas == InitJanelas /\ [][NextJanelas]_vars

----------------------------------------------------------------------------
(* Claims on the rolling statistics (SpecJanelas, SpecRisk) *)

\* sum of the values of the series at the positions a..b
RECURSIVE SomaEntre(_, _, _)
SomaEntre(s, a, b) == IF a > b THEN 0 ELSE s[b] + SomaEntre(s, a, b - 1)

\* a mean <<num, den>> is the mean of the last min(janela, available) values
MediaDaJanela(media, janela) ==
    LET n == Min2(janela, Len(serie))
    IN  /\ media[2] > 0
        /\ media[1] * n = SomaEntre(serie, Len(serie) - n + 1, Len(serie)) * media[2]

\* C14: MM7, MM30 and MM90 at the reference date are the means of the last
\* min(window, available) values of the zero-filled business-day series that
\* starts at the first recorded date; a short history is not padded.
Thm_C14 ==
    Classificado =>
        /\ MediaDaJanela(res.MM7, 7)
        /\ MediaDaJanela(res.MM30, 30)
        /\ MediaDaJanela(res.MM90, 90)

\* a history of more than 90 business days whose first day, with volume, has
\* left all three windows
Wit_C14 ==
    /\ Classificado
    /\ Len(serie) > 90
    /\ serie[1] > 0
    /\ res.MM90[2] = 90 /\ res.MM30[2] = 30 /\ res.MM7[2] = 7
    /\ res.MM90[1] < SomaEntre(serie, 1, Len(serie))

Ultimos3 == {i \in 1..Len(serie) : i > Len(serie) - 3}

\* the value at position i is below half of the mean of the (at most 7)
\* values that end at position i
AbaixoDaMetadeDaMM7(i) ==
    LET n == Min2(7, i)
    IN  2 * serie[i] * n < SomaEntre(serie, i - n + 1, i)

\* C16: drop50_streak counts, among the last 3 business-day observations, the
\* points below 50% of the MM7 of the data up to that point; it lies between
\* 0 and 3 and no value after the tested point is used.
Thm_C16 ==
    Classificado =>
        /\ res.quedas50_consec = Cardinality({i \in Ultimos3 : AbaixoDaMetadeDaMM7(i)})
        /\ res.quedas50_consec \in 0..3

\* a point that is not a drop against its own MM7 although it is below half
\* of the MM7 of the reference date, beside a counted drop
Wit_C16 ==
    /\ Classificado
    /\ res.quedas50_consec \in 1..2
    /\ \E i \in Ultimos3 :
          /\ ~AbaixoDaMetadeDaMM7(i)
          /\ 2 * serie[i] * res.MM7[2] < res.MM7[1]

\* C17: the recovery flag is true exactly when the series has at least 4
\* business-day values, today's value is at least MM7 and the mean of the 3
\* values before today is below 0.9 x MM7.
Thm_C17 ==
    Classificado =>
        (res.Recuperacao
           <=> /\ Len(serie) >= 4
               /\ Hoje * res.MM7[2] >= res.MM7[1]
               /\ 10 * SomaEntre(serie, Len(serie) - 3, Len(serie) - 1) * res.MM7[2]
                     < 3 * 9 * res.MM7[1])

\* a recovery, after three days that were not all without collection
Wit_C17 ==
    /\ Classificado
    /\ res.Recuperacao
    /\ SomaEntre(serie, Len(serie) - 3, Len(serie) - 1) > 0

----------------------------------------------------------------------------
(* Monthly closing: baseline of the top months and variation against it *)

\* values of BASELINE_TOP_N of config_churn (default 3)
ValoresDeBASELINE_TOP_N == {2, 3}

\* position of the first largest value of a non-empty sequence
PosicaoDoMaior(v) == CHOOSE i \in 1..Len(v) :
                        /\ \A j \in 1..Len(v) : v[j] <= v[i]
                        /\ \A j \in 1..(i - 1) : v[j] < v[i]

SemPosicao(v, i) == SubSeq(v, 1, i - 1) \o SubSeq(v, i + 1, Len(v))

\* pandas Series.nlargest(n), for n <= len
RECURSIVE nlargest(_, _)
nlargest(v, n) ==
    IF n = 0 \/ v = <<>> THEN <<>>
    ELSE <<v[PosicaoDoMaior(v)]>> \o nlargest(SemPosicao(v, PosicaoDoMaior(v)), n - 1)

\* the values of a sequence that are > 0, in order
RECURSIVE positivos(_)
positivos(v) ==
    IF v = <<>> THEN <<>>
    ELSE IF v[1] > 0 THEN <<v[1]>> \o positivos(Tail(v))
    ELSE positivos(Tail(v))

\* mutant: the months without collection are kept among the candidates
calcular_media_top3_com_zeros(meses) ==
    LET top3 == nlargest(meses, Min2(3, Len(meses)))
    IN  IF positivos(meses) = <<>> THEN <<0, 1>> ELSE <<SumSeq(top3), Len(top3)>>

\* preparar_dataframe_risco.calcular_media_top3: mean of the 3 largest months
\* with collections, as <<sum, count>>
calcular_media_top3(meses) ==
    LET valores == positivos(meses)
        top3 == nlargest(valores, Min2(3, Len(valores)))
    IN  IF valores = <<>> THEN <<0, 1>> ELSE <<SumSeq(top3), Len(top3)>>

\* float(x) of a raw cell, NaN when it is missing or not a number
float_de(cell) == IF cell.k = "num" THEN <<cell.v, 1>> ELSE NaN

\* mutant: a reference of zero reports a variation of 0%
calcular_variacao_percentual_zero(atual, anterior) ==
    IF ~notna(atual) \/ ~notna(anterior) THEN NaN
    ELSE IF anterior[1] <= 0 THEN <<0, 1>>
    ELSE <<atual[1] * anterior[2] - anterior[1] * atual[2], anterior[1] * atual[2]>>

\* calcular_variacao_percentual on two rationals; NaN stands for None
calcular_variacao_percentual(atual, anterior) ==
    IF ~notna(atual) \/ ~notna(anterior) THEN NaN
    ELSE IF anterior[1] <= 0 THEN NaN
    ELSE <<atual[1] * anterior[2] - anterior[1] * atual[2], anterior[1] * atual[2]>>

\* sum of one monthly column over the labs
RECURSIVE total_da_coluna(_, _)
total_da_coluna(labs, c) ==
    IF labs = <<>> THEN 0 ELSE labs[1].meses[c] + total_da_coluna(Tail(labs), c)

RECURSIVE total_mes_atual(_)
total_mes_atual(labs) ==
    IF labs = <<>> THEN 0 ELSE labs[1].Coletas_Mes_Atual + total_mes_atual(Tail(labs))

\* totais_historicos: one total per historical column, and the running month
\* when it has no column of its own yet
totais_historicos(d) ==
    LET colunas == [c \in 1..Len(d.labs[1].meses) |-> total_da_coluna(d.labs, c)]
    IN  IF d.tem_coluna_do_mes THEN colunas
        ELSE Append(colunas, total_mes_atual(d.labs))

calcular_metricas_fechamento_mensal(d) ==
    LET totais == totais_historicos(d)
        top_n == Min2(d.BASELINE_TOP_N, Len(totais))
        baseline == IF totais = <<>> THEN <<0, 1>>
                    ELSE <<SumSeq(nlargest(totais, top_n)), top_n>>
        volume == total_mes_atual(d.labs)
    IN  [origem |-> "metricas",
         totais_historicos |-> totais,
         volume_mes_atual |-> volume,
         baseline_total |-> baseline,
         delta_pct |-> calcular_variacao_percentual(<<volume, 1>>, baseline)]

\* the columns the monthly tab adds to each lab
renderizar_aba_fechamento_mensal(d) ==
    [origem |-> "aba_mensal",
     linhas |-> [i \in 1..Len(d.labs) |->
                    [Variacao_Baseline_Pct |->
                         calcular_variacao_percentual(<<d.labs[i].Coletas_Mes_Atual, 1>>,
                                                      float_de(d.labs[i].Baseline_Mensal))]]]

\* Media_Mensal_Top3_2024 of each lab
Media_Mensal_Top3_2024(d) ==
    [origem |-> "risco",
     medias |-> [i \in 1..Len(d.labs) |-> calcular_media_top3(d.labs[i].meses)]]

----------------------------------------------------------------------------
(* SpecMensal: one refresh with two labs and three historical months *)

MesesLab1 == [1..3 -> {0, 60, 80, 100}]
MesesLab2 == [1..3 -> {0, 20}]
BaselinesDoLab == {NaNCell, Num(0), Num(-3), Num(80)}

InitMensal ==
    /\ \E m1 \in MesesLab1, m2 \in MesesLab2, atual \in {0, 50}, b \in BaselinesDoLab,
          n \in ValoresDeBASELINE_TOP_N, fechado \in BOOLEAN :
          df = [labs |-> << [meses |-> m1, Coletas_Mes_Atual |-> atual,
                             Baseline_Mensal |-> b],
                            [meses |-> m2, Coletas_Mes_Atual |-> 0,
                             Baseline_Mensal |-> Num(0)] >>,
                BASELINE_TOP_N |-> n,
                tem_coluna_do_mes |-> fechado]
    /\ saida = Vazio
    /\ NaoUsadoRisk
    /\ NaoUsadoSemanas
    /\ NaoUsadoApp

CalcularMetricasMensal ==
    /\ saida' = calcular_metricas_fechamento_mensal(df)
    /\ UNCHANGED <<serie, ctx, limiares, res, df, cal, semanas, tabela, cache, bd, sessoes>>

RenderizarMensal ==
    /\ saida' = renderizar_aba_fechamento_mensal(df)
    /\ UNCHANGED <<serie, ctx, limiares, res, df, cal, semanas, tabela, cache, bd, sessoes>>

PrepararRisco ==
    /\ saida' = Media_Mensal_Top3_2024(df)
    /\ UNCHANGED <<serie, ctx, limiares, res, df, cal, semanas, tabela, cache, bd, sessoes>>

NextMensal == CalcularMetricasMensal \/ RenderizarMensal \/ PrepararRisco

SpecMensal == InitMensal /\ [][NextMensal]_vars

----------------------------------------------------------------------------
(* Claims on the monthly closing (SpecMensal) *)

MetricasFeitas == saida # Vazio /\ saida.origem = "metricas"

\* the non-zero values among the n largest values of a sequence of totals
MaioresNaoNulos(v, n) == nlargest(positivos(v), Min2(n, Len(positivos(v))))

\* a mean <<sum, count>> is the mean of the n largest non-zero values of v,
\* and 0 when v has none
MediaDosMaioresNaoNulos(media, v, n) ==
    IF positivos(v) = <<>> THEN media[1] = 0 /\ media[2] > 0
    ELSE /\ media[2] > 0
         /\ media[1] * Len(MaioresNaoNulos(v, n)) = SumSeq(MaioresNaoNulos(v, n)) * media[2]

\* C18 as stated: the baseline of the month is the mean of the N largest
\* non-zero monthly totals, of all of them when there are fewer than N, and 0
\* when there is none.
CE_C18 ==
    MetricasFeitas =>
        MediaDosMaioresNaoNulos(saida.baseline_total, saida.totais_historicos,
                                df.BASELINE_TOP_N)

\* p is the percentage (atual - base)/base x 100 of a volume against a
\* positive base <<num, den>>
VariacaoContra(p, atual, base) ==
    /\ notna(p)
    /\ p[1] * base[1] = (atual * base[2] - base[1]) * p[2]

\* C19: variance_pct is (current - baseline)/baseline x 100 when the baseline
\* is positive, and null whenever the baseline is not positive, a baseline of
\* zero historical months included; it is then neither 0 nor infinite.
Thm_C19 ==
    /\ MetricasFeitas =>
          IF saida.baseline_total[1] > 0
          THEN VariacaoContra(saida.delta_pct, saida.volume_mes_atual, saida.baseline_total)
          ELSE saida.delta_pct = NaN
    /\ (saida # Vazio /\ saida.origem = "aba_mensal") =>
          \A i \in 1..Len(df.labs) :
              LET b == df.labs[i].Baseline_Mensal
              IN  IF b.k = "num" /\ b.v > 0
                  THEN VariacaoContra(saida.linhas[i].Variacao_Baseline_Pct,
                                      df.labs[i].Coletas_Mes_Atual, <<b.v, 1>>)
                  ELSE saida.linhas[i].Variacao_Baseline_Pct = NaN

\* a month with volume against a baseline of months without any collection
Wit_C19 ==
    /\ MetricasFeitas
    /\ \A c \in 1..Len(saida.totais_historicos) : saida.totais_historicos[c] = 0
    /\ saida.baseline_total[1] = 0
    /\ saida.volume_mes_atual > 0
    /\ saida.delta_pct = NaN

----------------------------------------------------------------------------
(* The risk loop of DataManager.preparar_dados over the rows of a refresh *)

\* the cell Dados_Diarios_2025: missing, text that is not JSON, or a JSON
\* object of months; a month holds its days or a value that is not an object
SemDados == [k |-> "nan", meses |-> <<>>]
NaoJSON == [k |-> "txt", meses |-> <<>>]
Objeto(meses) == [k |-> "dict", meses |-> meses]
Dias(d) == [k |-> "dias", dias |-> d]
NaoObjeto == [k |-> "outro", dias |-> <<>>]

Erro == [vazio |-> FALSE, erro |-> TRUE]

\* the days of one month: an entry that int() rejects is skipped
RECURSIVE linhas_do_mes(_)
linhas_do_mes(d) ==
    IF d = <<>> THEN <<>>
    ELSE (IF d[1].k = "num" THEN <<[lido |-> TRUE, v |-> d[1].v]>>
          ELSE <<[lido |-> FALSE, v |-> 0]>>) \o linhas_do_mes(Tail(d))

\* dias.items() of every month; a month that is not an object raises
RECURSIVE linhas_dos_meses(_)
linhas_dos_meses(meses) ==
    IF meses = <<>> THEN <<>>
    ELSE IF meses[1].k # "dias" THEN Erro
    ELSE LET resto == linhas_dos_meses(Tail(meses))
         IN  IF resto = Erro THEN Erro ELSE linhas_do_mes(meses[1].dias) \o resto

\* _serie_diaria_from_json followed by _serie_business_day: the days read,
\* from the first one on, with 0 on the business days without a record
RECURSIVE desde_o_primeiro(_)
desde_o_primeiro(l) ==
    IF l = <<>> THEN <<>>
    ELSE IF l[1].lido THEN [i \in 1..Len(l) |-> l[i].v]
    ELSE desde_o_primeiro(Tail(l))

serie_diaria_from_json(cell) ==
    IF cell.k # "dict" THEN <<>>
    ELSE IF linhas_dos_meses(cell.meses) = Erro THEN Erro
    ELSE desde_o_primeiro(linhas_dos_meses(cell.meses))

CtxDoLote == [MM7_BR |-> Num(18), MM7_UF |-> NaNCell, MM7_CIDADE |-> Num(2)]
LimiaresDoLote == [medio |-> 30, alto |-> 50]

\* RiskEngine.classificar(row): raises, returns {} or the stats of the row
classificar_linha(row) ==
    LET s == serie_diaria_from_json(row.Dados_Diarios_2025)
    IN  IF s = Erro THEN Erro ELSE classificar(s, CtxDoLote, LimiaresDoLote)

\* the try block around the whole loop: one exception leaves every row with
\* the new columns set to None
preparar_dados(d) ==
    IF \E i \in 1..Len(d) : classificar_linha(d[i]) = Erro
    THEN [i \in 1..Len(d) |-> Vazio]
    ELSE [i \in 1..Len(d) |-> classificar_linha(d[i])]

----------------------------------------------------------------------------
(* SpecLote: a refresh of three labs *)

DadosDiarios ==
    {SemDados, NaoJSON,
     Objeto(<<Dias(<<Num(9), Num(9), Num(1)>>)>>),
     Objeto(<<Dias(<<Num(1), TxtCell>>), Dias(<<Num(9)>>)>>),
     Objeto(<<NaoObjeto>>),
     Objeto(<<Dias(<<Num(9)>>), NaoObjeto>>)}

InitLote ==
    /\ df \in [1..3 -> [Dados_Diarios_2025 : DadosDiarios]]
    /\ saida = Vazio
    /\ NaoUsadoRisk
    /\ NaoUsadoSemanas
    /\ NaoUsadoApp

PrepararDados ==
    /\ saida = Vazio
    /\ saida' = [origem |-> "lote", linhas |-> preparar_dados(df)]
    /\ UNCHANGED <<serie, ctx, limiares, res, df, cal, semanas, tabela, cache, bd, sessoes>>

NextLote == PrepararDados

SpecLote == InitLote /\ [][NextLote]_vars

----------------------------------------------------------------------------
(* Claim on the batch (SpecLote) *)

LoteFeito == saida # Vazio /\ saida.origem = "lote"

\* the lab's own risk computation yields stats
TemEstatisticas(i) ==
    /\ classificar_linha(df[i]) # Erro
    /\ classificar_linha(df[i]) # Vazio

\* C20 as stated: whatever happens to the other labs of the batch, a lab
\* whose own risk computation succeeds gets its risk results.
CE_C20 ==
    LoteFeito =>
        \A i \in 1..Len(df) :
            TemEstatisticas(i) => saida.linhas[i] = classificar_linha(df[i])

----------------------------------------------------------------------------
(* The cached load of the churn file: st.cache_data over                   *)
(* carregar_dados_churn, baixar_sharepoint and the local files             *)

CACHE_TTL == 2       \* in steps of the clock
MaxVersao == 2       \* versions of the data the upstream publishes

DataFrame(v) == [k |-> "df", v |-> v]
CSV(v) == [k |-> "csv", v |-> v]
Lixo == [k |-> "lixo", v |-> 0]            \* neither a CSV nor a Parquet file
Ausente == [existe |-> FALSE, conteudo |-> Lixo, idade |-> 0]
Arquivo(c, idade) == [existe |-> TRUE, conteudo |-> c, idade |-> idade]

\* the local file names: churn_analysis_latest.csv and the basename of another
\* configured remote file
NomesDeArquivo == {"churn_analysis_latest.csv", "outro.csv"}

\* mutant: a local file is enough, whatever its age
should_download_sem_idade(arquivos) ==
    ~arquivos["churn_analysis_latest.csv"].existe

\* should_download_sharepoint(arquivo_remoto=None, force=False)
should_download_sharepoint(arquivos) ==
    LET arquivo_local == arquivos["churn_analysis_latest.csv"]
    IN  ~(arquivo_local.existe /\ arquivo_local.idade < CACHE_TTL)

\* _is_valid_csv(path) or _is_valid_parquet(path)
is_valid(arq) == arq.existe /\ arq.conteudo.k = "csv"

\* baixar_sharepoint(): the path returned ("" for None), the files afterwards
\* and whether the download was attempted and whether it completed
baixar_sharepoint(c) ==
    LET padrao == "churn_analysis_latest.csv"
        local == IF c.arquivos[padrao].existe THEN padrao ELSE ""
    IN  IF ~c.graph_configurado
        THEN [caminho |-> local, arquivos |-> c.arquivos, tentou |-> FALSE, baixou |-> FALSE]
        ELSE IF ~should_download_sharepoint(c.arquivos) /\ c.arquivos[padrao].existe
        THEN [caminho |-> padrao, arquivos |-> c.arquivos, tentou |-> FALSE, baixou |-> FALSE]
        ELSE IF c.fonte.estado = "fora"
        THEN [caminho |-> local, arquivos |-> c.arquivos, tentou |-> TRUE, baixou |-> FALSE]
        ELSE LET content == IF c.fonte.estado = "ok" THEN CSV(c.fonte.versao) ELSE Lixo
                 gravados == [c.arquivos EXCEPT ![c.arquivo_remoto] = Arquivo(content, 0)]
             IN  [caminho |-> IF is_valid(gravados[c.arquivo_remoto])
                              THEN c.arquivo_remoto ELSE "",
                  arquivos |-> gravados, tentou |-> TRUE,
                  baixou |-> is_valid(gravados[c.arquivo_remoto])]

\* the body of carregar_dados_churn on the files left by baixar_sharepoint
ler_arquivos(caminho, arquivos) ==
    LET padrao == "churn_analysis_latest.csv"
    IN  IF caminho # "" /\ arquivos[caminho].existe /\ arquivos[caminho].conteudo.k = "csv"
        THEN DataFrame(arquivos[caminho].conteudo.v)
        ELSE IF arquivos[padrao].existe
        THEN (IF arquivos[padrao].conteudo.k = "csv"
              THEN DataFrame(arquivos[padrao].conteudo.v)
              ELSE NoneV)
        ELSE NoneV

\* a cache entry of st.cache_data(ttl=CACHE_TTL) that can still be served
entrada_valida(mem) == mem # Vazio /\ mem.idade < CACHE_TTL

\* DataManager.carregar_dados_churn() behind @st.cache_data
carregar_dados_churn(c) ==
    IF entrada_valida(c.mem)
    THEN [c EXCEPT !.ultimo = [resultado |-> c.mem.valor, recomputou |-> FALSE,
                               expirou |-> FALSE, tentou |-> FALSE, baixou |-> FALSE,
                               fonte |-> c.fonte, anterior |-> c.ultima_boa]]
    ELSE LET b == baixar_sharepoint(c)
             df_raw == ler_arquivos(b.caminho, b.arquivos)
         IN  [c EXCEPT !.arquivos = b.arquivos,
                       !.mem = [valor |-> df_raw, idade |-> 0],
                       !.ultima_boa = IF df_raw # NoneV THEN df_raw ELSE c.ultima_boa,
                       !.ultimo = [resultado |-> df_raw, recomputou |-> TRUE,
                                   expirou |-> c.mem # Vazio,
                                   tentou |-> b.tentou, baixou |-> b.baixou,
                                   fonte |-> c.fonte, anterior |-> c.ultima_boa]]

----------------------------------------------------------------------------
(* SpecCache: requests, the clock and the upstream *)

EstadosDaFonte == {"ok", "fora", "invalido"}

envelhecer(arq) == IF arq.existe THEN [arq EXCEPT !.idade = Min2(CACHE_TTL, arq.idade + 1)]
                   ELSE arq

InitCache ==
    /\ \E g \in BOOLEAN, nome \in NomesDeArquivo, e \in EstadosDaFonte,
          local \in {Ausente, Arquivo(CSV(0), 0), Arquivo(CSV(0), CACHE_TTL)} :
          cache = [graph_configurado |-> g,
                   arquivo_remoto |-> nome,
                   fonte |-> [estado |-> e, versao |-> 1],
                   arquivos |-> [n \in NomesDeArquivo |->
                                    IF n = "churn_analysis_latest.csv" THEN local
                                    ELSE Ausente],
                   mem |-> Vazio,
                   ultima_boa |-> NoneV,
                   ultimo |-> Vazio]
    /\ bd = Vazio /\ sessoes = Vazio
    /\ NaoUsadoRisk
    /\ NaoUsadoLista
    /\ NaoUsadoSemanas

\* main: a page run loads the data
Carregar ==
    /\ cache' = carregar_dados_churn(cache)
    /\ UNCHANGED <<serie, ctx, limiares, res, df, saida, cal, semanas, tabela, bd, sessoes>>

\* time passes for the cache entry and for the files
PassaTempo ==
    /\ cache' = [cache EXCEPT
                    !.mem = IF cache.mem = Vazio THEN Vazio
                            ELSE [cache.mem EXCEPT !.idade = Min2(CACHE_TTL, @ + 1)],
                    !.arquivos = [n \in NomesDeArquivo |-> envelhecer(cache.arquivos[n])]]
    /\ UNCHANGED <<serie, ctx, limiares, res, df, saida, cal, semanas, tabela, bd, sessoes>>

\* the upstream becomes (un)available or starts serving an invalid file
MudarFonte ==
    /\ \E e \in EstadosDaFonte \ {cache.fonte.estado} :
          cache' = [cache EXCEPT !.fonte.estado = e]
    /\ UNCHANGED <<serie, ctx, limiares, res, df, saida, cal, semanas, tabela, bd, sessoes>>

\* the upstream publishes a new analysis
PublicarVersao ==
    /\ cache.fonte.versao < MaxVersao
    /\ cache' = [cache EXCEPT !.fonte.versao = @ + 1]
    /\ UNCHANGED <<serie, ctx, limiares, res, df, saida, cal, semanas, tabela, bd, sessoes>>

NextCache == Carregar \/ PassaTempo \/ MudarFonte \/ PublicarVersao

SpecCache == InitCache /\ [][NextCache]_vars

----------------------------------------------------------------------------
(* Claims on the cached load (SpecCache) *)

Carregado == cache # Vazio /\ cache.ultimo # Vazio

FonteIndisponivel == ~cache.graph_configurado \/ cache.ultimo.fonte.estado = "fora"

\* C21 as stated: a load made while the upstream is unavailable, after some
\* load has returned data, returns that data.
CE_C21 ==
    (Carregado /\ FonteIndisponivel /\ cache.ultimo.anterior # NoneV) =>
        cache.ultimo.resultado = cache.ultimo.anterior

\* C22 as stated: a load whose refresh pass was attempted and did not
\* complete returns the data of the previous load, and so does every later
\* load that is not itself a completed pass.
CE_C22 ==
    (Carregado /\ ~cache.ultimo.baixou /\ cache.ultimo.fonte.estado = "invalido"
       /\ cache.ultimo.anterior # NoneV) =>
        cache.ultimo.resultado = cache.ultimo.anterior

\* a step that is a request: the record of the last request changes
Requisicao == cache'.ultimo # cache.ultimo

\* C23: a request made while the cached entry is younger than the TTL returns
\* the entry and touches neither the entry nor the files; the first request
\* after the entry expired runs the whole load again and stores a fresh entry,
\* and, when the upstream is configured and serving, its result is what the
\* upstream holds at that moment, downloaded whole.
Thm_C23 ==
    [][Requisicao =>
         IF cache.mem # Vazio /\ cache.mem.idade < CACHE_TTL
         THEN /\ cache'.ultimo.resultado = cache.mem.valor
              /\ ~cache'.ultimo.recomputou
              /\ cache'.mem = cache.mem
              /\ cache'.arquivos = cache.arquivos
         ELSE /\ cache'.ultimo.recomputou
              /\ cache'.mem = [valor |-> cache'.ultimo.resultado, idade |-> 0]
              /\ (cache.mem # Vazio /\ cache.graph_configurado /\ cache.fonte.estado = "ok") =>
                    /\ cache'.ultimo.baixou
                    /\ cache'.ultimo.resultado = DataFrame(cache.fonte.versao)
                    /\ cache'.arquivos[cache.arquivo_remoto] =
                          Arquivo(CSV(cache.fonte.versao), 0)]_vars

\* an expired entry was replaced by the newer version fetched from the upstream
Wit_C23 ==
    /\ Carregado
    /\ cache.ultimo.expirou /\ cache.ultimo.recomputou /\ cache.ultimo.baixou
    /\ cache.ultimo.anterior = DataFrame(1)
    /\ cache.ultimo.resultado = DataFrame(MaxVersao)

----------------------------------------------------------------------------
(* The deviations application (src/home.py, src/pages/cadastro.py): the    *)
(* desvios table with its row versions, the audit log and the three pages  *)
(* that save edits.  A row carries one field of each kind; data_atualizacao *)
(* and the _en mirror columns change with the fields they follow.           *)

MaxDesvios == 1      \* deviations registered in the study
MaxXid == 3          \* transactions that write to desvios

Usuarios == {"ana", "bia"}
Perfis == {"Administrador", "Usuário", "Visualizador"}

CAMPOS_MONITORA == {"participante"}
CAMPOS_GERENTE == {"descricao_desvio"}
CAMPOS_SISTEMA == {"numero_desvio_estudo", "status", "atualizado_por", "row_version", "url_anexo"}

\* get_campos_editaveis_por_perfil(perfil)
get_campos_editaveis_por_perfil(perfil) ==
    IF perfil = "Administrador" THEN CAMPOS_MONITORA \cup CAMPOS_GERENTE
    ELSE IF perfil = "Usuário" THEN CAMPOS_MONITORA
    ELSE {}

\* the values a user can type into a column
ValoresDe(campo) ==
    CASE campo = "participante" -> {"p0", "p1"}
      [] campo = "descricao_desvio" -> {"d0", "d1"}
      [] campo = "url_anexo" -> {"", "url"}
      [] campo = "status" -> {"Novo", "Modificado"}
      [] campo = "numero_desvio_estudo" -> {1, 2}

\* get_proximo_numero_desvio(estudo_id): COALESCE(MAX(numero_desvio_estudo), 0) + 1
get_proximo_numero_desvio(desvios) ==
    IF desvios = <<>> THEN 1
    ELSE (CHOOSE m \in {desvios[i].numero_desvio_estudo : i \in DOMAIN desvios} :
             \A i \in DOMAIN desvios : desvios[i].numero_desvio_estudo <= m) + 1

\* render_cadastro_desvio: the INSERT of a new deviation
inserir_desvio(b, numero_desvio, participante, descricao, url_anexo) ==
    [b EXCEPT !.xid = @ + 1,
              !.desvios = Append(@, [numero_desvio_estudo |-> numero_desvio,
                                     status |-> "Novo",
                                     participante |-> participante,
                                     descricao_desvio |-> descricao,
                                     url_anexo |-> url_anexo,
                                     atualizado_por |-> "",
                                     row_version |-> b.xid + 1])]

\* registrar_log(cursor, desvio_id, estudo_id, usuario, campo, valor_antigo, valor_novo)
registrar_log(desvio_id, usuario, campo, valor_antigo, valor_novo) ==
    [desvio_id |-> desvio_id, usuario |-> usuario, campo |-> campo,
     valor_antigo |-> valor_antigo, valor_novo |-> valor_novo]

\* the cells of linha replaced by those of editada in the columns campos
com_os_campos(linha, editada, campos) ==
    [c \in DOMAIN linha |-> IF c \in campos THEN editada[c] ELSE linha[c]]

\* mutant: UPDATE desvios SET ... WHERE id = %s, without the row version
salvar_edicao_desvio_sem_xmin(b, desvio_id, row_version, display_name, campos_editaveis, novos_valores, valores_originais) ==
    LET campos_alterados == {c \in DOMAIN novos_valores :
                                c \in campos_editaveis /\ novos_valores[c] # valores_originais[c]}
    IN  IF campos_alterados = {}
        THEN [bd |-> b, ids |-> {}, conflitos |-> {}]
        ELSE [bd |-> [b EXCEPT !.xid = @ + 1,
                         !.log = @ \cup {registrar_log(desvio_id, display_name, c,
                                            valores_originais[c], novos_valores[c]) :
                                            c \in campos_alterados},
                         !.desvios[desvio_id] =
                             [com_os_campos(@, novos_valores, campos_alterados) EXCEPT
                                 !.atualizado_por = display_name,
                                 !.status = "Modificado",
                                 !.row_version = b.xid + 1]],
              ids |-> {desvio_id}, conflitos |-> {}]

\* salvar_edicao_desvio(desvio_id, row_version, estudo_id, display_name,
\*                      campos_editaveis, novos_valores, valores_originais)
salvar_edicao_desvio(b, desvio_id, row_version, display_name, campos_editaveis, novos_valores, valores_originais) ==
    LET campos_alterados == {c \in DOMAIN novos_valores :
                                c \in campos_editaveis /\ novos_valores[c] # valores_originais[c]}
    IN  IF campos_alterados = {}
        THEN [bd |-> b, ids |-> {}, conflitos |-> {}]
        ELSE IF b.desvios[desvio_id].row_version # row_version
        THEN [bd |-> b, ids |-> {desvio_id}, conflitos |-> {desvio_id}]
        ELSE [bd |-> [b EXCEPT !.xid = @ + 1,
                         !.log = @ \cup {registrar_log(desvio_id, display_name, c,
                                            valores_originais[c], novos_valores[c]) :
                                            c \in campos_alterados},
                         !.desvios[desvio_id] =
                             [com_os_campos(@, novos_valores, campos_alterados) EXCEPT
                                 !.atualizado_por = display_name,
                                 !.status = "Modificado",
                                 !.row_version = b.xid + 1]],
              ids |-> {desvio_id}, conflitos |-> {}]

\* the rows of the edited frame that differ from the original in a data column
ids_alterados(edited_df, original_df) ==
    {i \in DOMAIN edited_df :
        \E c \in DOMAIN edited_df[i] \ {"row_version"} : edited_df[i][c] # original_df[i][c]}

\* save_desvios_changes(edited_df, original_df, display_name, estudo_id)
save_desvios_changes(b, edited_df, original_df, display_name) ==
    LET ids == ids_alterados(edited_df, original_df)
        campos_editaveis == {"participante", "descricao_desvio", "url_anexo"}
        aplicados == {i \in ids : b.desvios[i].row_version = original_df[i].row_version}
    IN  IF ids = {}
        THEN [bd |-> b, ids |-> {}, conflitos |-> {}]
        ELSE [bd |-> [b EXCEPT
                         !.xid = IF aplicados = {} THEN @ ELSE @ + 1,
                         !.log = @ \cup {registrar_log(i, display_name, c,
                                            original_df[i][c], edited_df[i][c]) :
                                            <<i, c>> \in {ic \in ids \X campos_editaveis :
                                               original_df[ic[1]][ic[2]] # edited_df[ic[1]][ic[2]]}},
                         !.desvios = [i \in DOMAIN b.desvios |->
                             IF i \in aplicados
                             THEN [com_os_campos(b.desvios[i], edited_df[i], campos_editaveis)
                                      EXCEPT !.atualizado_por = display_name,
                                             !.status = "Modificado",
                                             !.row_version = b.xid + 1]
                             ELSE b.desvios[i]]],
              ids |-> ids, conflitos |-> ids \ aplicados]

\* lista_desvios_page (src/pages/cadastro.py): the save of the editable table
lista_desvios_page(b, edited_df, original_df, display_name) ==
    LET ids == ids_alterados(edited_df, original_df)
        base_update_columns == {"numero_desvio_estudo", "status", "participante",
                                "descricao_desvio", "url_anexo"}
        aplicados == {i \in ids : b.desvios[i].row_version = original_df[i].row_version}
    IN  IF ids = {}
        THEN [bd |-> b, ids |-> {}, conflitos |-> {}]
        ELSE [bd |-> [b EXCEPT
                         !.xid = IF aplicados = {} THEN @ ELSE @ + 1,
                         !.desvios = [i \in DOMAIN b.desvios |->
                             IF i \in aplicados
                             THEN [com_os_campos(b.desvios[i], edited_df[i], base_update_columns)
                                      EXCEPT !.atualizado_por = display_name,
                                             !.row_version = b.xid + 1]
                             ELSE b.desvios[i]]],
              ids |-> ids, conflitos |-> ids \ aplicados]

----------------------------------------------------------------------------
(* SpecDesvios: two users of one study register, load and edit deviations *)

\* the frames a user can leave in the table editor: one cell of the loaded
\* frame replaced
FramesEditados(d, colunas) ==
    UNION {{[d EXCEPT ![ic[1]][ic[2]] = v] : v \in ValoresDe(ic[2])} :
              ic \in (DOMAIN d) \X colunas}

InitDesvios ==
    /\ \E pb \in {"Usuário", "Visualizador"} :
          bd = [desvios |-> <<>>, log |-> {}, xid |-> 0,
                usuarios |-> [u \in Usuarios |-> IF u = "ana" THEN "Administrador" ELSE pb]]
    /\ sessoes = [u \in Usuarios |-> [df |-> <<>>, ultimo |-> Vazio]]
    /\ cache = Vazio
    /\ NaoUsadoRisk
    /\ NaoUsadoLista
    /\ NaoUsadoSemanas

\* render_cadastro_desvio: the form is submitted
CadastrarDesvio ==
    /\ Len(bd.desvios) < MaxDesvios
    /\ bd.xid < MaxXid
    /\ \E u \in Usuarios :
          /\ bd' = inserir_desvio(bd, get_proximo_numero_desvio(bd.desvios), "p0", "d0", "")
          /\ sessoes' = [sessoes EXCEPT ![u].df = <<>>]
    /\ UNCHANGED <<serie, ctx, limiares, res, df, saida, cal, semanas, tabela, cache>>

\* load_desvios_do_estudo / _load_desvios_into_session: the page keeps the
\* rows with their xmin in the session
CarregarDesvios ==
    /\ \E u \in Usuarios :
          /\ sessoes[u].df = <<>>
          /\ bd.desvios # <<>>
          /\ sessoes' = [sessoes EXCEPT ![u].df = bd.desvios]
    /\ UNCHANGED <<serie, ctx, limiares, res, df, saida, cal, semanas, tabela, cache, bd>>

\* render_desvios_estudo: the edit form of one deviation is submitted
SalvarEdicao ==
    /\ bd.xid < MaxXid
    /\ \E u \in Usuarios :
          /\ sessoes[u].df # <<>>
          /\ \E i \in DOMAIN sessoes[u].df,
                novos \in [{"participante", "descricao_desvio"} -> {"p0", "p1", "d0", "d1"}] :
                /\ \A c \in DOMAIN novos : novos[c] \in ValoresDe(c)
                /\ LET r == salvar_edicao_desvio(bd, i, sessoes[u].df[i].row_version, u,
                              get_campos_editaveis_por_perfil(bd.usuarios[u]),
                              novos, sessoes[u].df[i])
                   IN  /\ bd' = r.bd
                       /\ sessoes' = [sessoes EXCEPT
                             ![u].ultimo = [ids |-> r.ids, conflitos |-> r.conflitos],
                             ![u].df = IF r.ids # {} /\ r.conflitos = {} THEN <<>> ELSE @]
    /\ UNCHANGED <<serie, ctx, limiares, res, df, saida, cal, semanas, tabela, cache>>

\* save_desvios_changes called with the frame of an editable table
SalvarTabela ==
    /\ bd.xid < MaxXid
    /\ \E u \in Usuarios :
          /\ sessoes[u].df # <<>>
          /\ \E ed \in FramesEditados(sessoes[u].df,
                          {"participante", "descricao_desvio", "url_anexo", "status"}) :
                LET r == save_desvios_changes(bd, ed, sessoes[u].df, u)
                IN  /\ bd' = r.bd
                    /\ sessoes' = [sessoes EXCEPT
                          ![u].ultimo = [ids |-> r.ids, conflitos |-> r.conflitos],
                          ![u].df = <<>>]
    /\ UNCHANGED <<serie, ctx, limiares, res, df, saida, cal, semanas, tabela, cache>>

\* lista_desvios_page: Salvar, then the reload of the session frame
SalvarLista ==
    /\ bd.xid < MaxXid
    /\ \E u \in Usuarios :
          /\ sessoes[u].df # <<>>
          /\ \E ed \in FramesEditados(sessoes[u].df,
                          {"participante", "descricao_desvio", "url_anexo", "status",
                           "numero_desvio_estudo"}) :
                LET r == lista_desvios_page(bd, ed, sessoes[u].df, u)
                IN  /\ bd' = r.bd
                    /\ sessoes' = [sessoes EXCEPT
                          ![u].ultimo = [ids |-> r.ids, conflitos |-> r.conflitos],
                          ![u].df = r.bd.desvios]
    /\ UNCHANGED <<serie, ctx, limiares, res, df, saida, cal, semanas, tabela, cache>>

NextDesvios == CadastrarDesvio \/ CarregarDesvios \/ SalvarEdicao \/ SalvarTabela \/ SalvarLista

SpecDesvios == InitDesvios /\ [][NextDesvios]_vars

----------------------------------------------------------------------------
(* Claims on the edits of deviations (SpecDesvios) *)

\* the step changes the stored row i
LinhaMuda(i) == i \in DOMAIN bd.desvios /\ bd'.desvios[i] # bd.desvios[i]

\* the user a changed row names in atualizado_por
QuemSalvou(i) == bd'.desvios[i].atualizado_por

CE_C28 ==
    [][/\ \A i \in DOMAIN bd'.desvios \ DOMAIN bd.desvios : bd'.desvios[i].status = "Novo"
       /\ \A i \in DOMAIN bd.desvios :
             LinhaMuda(i) => bd'.desvios[i].status = "Modificado"]_vars

----------------------------------------------------------------------------
(* SpecAdm: the numbering of new deviations, the allocation of the medical *)
(* manager of the study and the access to the administrative panel, with   *)
(* every database transaction of a handler as a step of its own            *)

MaxAlocacoes == 3    \* rows ever inserted into estudo_gerente_medico

Gerentes == {"g1", "g2"}

\* the rows of estudo_gerente_medico that a DELETE of this study has to wait
\* for: deleted by a transaction that has not committed yet
Bloqueadas == UNION {sessoes[u].tx.apagadas : u \in {v \in Usuarios : sessoes[v].tx # Vazio}}

InitAdm ==
    /\ bd = [desvios |-> <<>>, xid |-> 0, egm |-> {}, rid |-> 0,
             usuarios |-> [u \in Usuarios |-> "Administrador"]]
    /\ sessoes = [u \in Usuarios |->
                     [numero_desvio |-> 0, tx |-> Vazio,
                      pode_acessar_adm |-> "", painel |-> FALSE]]
    /\ cache = Vazio
    /\ NaoUsadoRisk
    /\ NaoUsadoLista
    /\ NaoUsadoSemanas

\* render_cadastro_desvio: numero_desvio = get_proximo_numero_desvio(estudo['id']),
\* which answers 1 when the query fails
LerProximoNumero ==
    /\ \E u \in Usuarios, falha \in BOOLEAN :
          /\ sessoes[u].numero_desvio = 0
          /\ Len(bd.desvios) <= MaxDesvios
          /\ sessoes' = [sessoes EXCEPT ![u].numero_desvio =
                            IF falha THEN 1 ELSE get_proximo_numero_desvio(bd.desvios)]
    /\ UNCHANGED <<serie, ctx, limiares, res, df, saida, cal, semanas, tabela, cache, bd>>

\* render_cadastro_desvio: the upload, then the INSERT with the number read
InserirDesvio ==
    /\ \E u \in Usuarios :
          /\ sessoes[u].numero_desvio # 0
          /\ bd' = inserir_desvio(bd, sessoes[u].numero_desvio, "p0", "d0", "")
          /\ sessoes' = [sessoes EXCEPT ![u].numero_desvio = 0]
    /\ UNCHANGED <<serie, ctx, limiares, res, df, saida, cal, semanas, tabela, cache>>

\* alocar_gerente_medico: DELETE FROM estudo_gerente_medico WHERE estudo_id = %s
AlocarDelete ==
    /\ \E u \in Usuarios, g \in Gerentes :
          /\ sessoes[u].painel
          /\ sessoes[u].tx = Vazio
          /\ bd.rid < MaxAlocacoes
          /\ {l.rid : l \in bd.egm} \cap Bloqueadas = {}
          /\ sessoes' = [sessoes EXCEPT ![u].tx =
                            [gerente_id |-> g, apagadas |-> {l.rid : l \in bd.egm}]]
    /\ UNCHANGED <<serie, ctx, limiares, res, df, saida, cal, semanas, tabela, cache, bd>>

\* alocar_gerente_medico: INSERT INTO estudo_gerente_medico and conn.commit()
AlocarInsert ==
    /\ \E u \in Usuarios :
          /\ sessoes[u].tx # Vazio
          /\ bd' = [bd EXCEPT
                       !.rid = @ + 1,
                       !.egm = {l \in @ : l.rid \notin sessoes[u].tx.apagadas}
                               \cup {[rid |-> bd.rid + 1,
                                      gerente_medico_id |-> sessoes[u].tx.gerente_id]}]
          /\ sessoes' = [sessoes EXCEPT ![u].tx = Vazio]
    /\ UNCHANGED <<serie, ctx, limiares, res, df, saida, cal, semanas, tabela, cache>>

\* remover_gerente_medico_do_estudo(estudo_id)
RemoverGerente ==
    /\ \E u \in Usuarios :
          /\ sessoes[u].painel
          /\ sessoes[u].tx = Vazio
          /\ bd.egm # {}
          /\ {l.rid : l \in bd.egm} \cap Bloqueadas = {}
          /\ bd' = [bd EXCEPT !.egm = {}]
    /\ UNCHANGED <<serie, ctx, limiares, res, df, saida, cal, semanas, tabela, cache, sessoes>>

\* a page run that asks for the panel: pode_acessar_painel_adm(user_email) is
\* called when st.session_state has no pode_acessar_adm, and render_painel_adm
\* shows the panel for the value kept in the session
AbrirPainel ==
    /\ \E u \in Usuarios :
          /\ ~sessoes[u].painel
          /\ LET pode == IF sessoes[u].pode_acessar_adm = ""
                         THEN (IF bd.usuarios[u] = "Administrador" THEN "sim" ELSE "nao")
                         ELSE sessoes[u].pode_acessar_adm
             IN  sessoes' = [sessoes EXCEPT ![u].pode_acessar_adm = pode,
                                            ![u].painel = (pode = "sim")]
    /\ UNCHANGED <<serie, ctx, limiares, res, df, saida, cal, semanas, tabela, cache, bd>>

\* the user goes to another page of the application
SairDoPainel ==
    /\ \E u \in Usuarios :
          /\ sessoes[u].painel
          /\ sessoes[u].tx = Vazio
          /\ sessoes' = [sessoes EXCEPT ![u].painel = FALSE]
    /\ UNCHANGED <<serie, ctx, limiares, res, df, saida, cal, semanas, tabela, cache, bd>>

\* atualizar_usuario(user_id, nome, cargo, perfil, current_user_email)
AtualizarUsuario ==
    /\ \E u \in Usuarios, alvo \in Usuarios, perfil \in {"Administrador", "Usuário"} :
          /\ sessoes[u].painel
          /\ bd.usuarios[alvo] \notin {"", perfil}
          /\ bd' = [bd EXCEPT !.usuarios[alvo] = perfil]
    /\ UNCHANGED <<serie, ctx, limiares, res, df, saida, cal, semanas, tabela, cache, sessoes>>

\* remover_usuario(user_id, current_user_email)
RemoverUsuario ==
    /\ \E u \in Usuarios, alvo \in Usuarios :
          /\ alvo # u
          /\ sessoes[u].painel
          /\ bd.usuarios[alvo] # ""
          /\ bd' = [bd EXCEPT !.usuarios[alvo] = ""]
    /\ UNCHANGED <<serie, ctx, limiares, res, df, saida, cal, semanas, tabela, cache, sessoes>>

NextAdm ==
    \/ LerProximoNumero \/ InserirDesvio
    \/ AlocarDelete \/ AlocarInsert \/ RemoverGerente
    \/ AbrirPainel \/ SairDoPainel \/ AtualizarUsuario \/ RemoverUsuario

SpecAdm == InitAdm /\ [][NextAdm]_vars

----------------------------------------------------------------------------
(* Claims on numbering, allocation and the panel (SpecAdm) *)

\* C26 as stated: the deviations of the study have pairwise distinct
\* numero_desvio_estudo.
CE_C26 ==
    (bd # Vazio /\ "egm" \in DOMAIN bd) =>
        \A i, j \in DOMAIN bd.desvios :
           i # j => bd.desvios[i].numero_desvio_estudo # bd.desvios[j].numero_desvio_estudo

\* C29 as stated: the study never has more than one row of
\* estudo_gerente_medico.
CE_C29 ==
    (bd # Vazio /\ "egm" \in DOMAIN bd) => Cardinality(bd.egm) <= 1

\* C30 as stated: a page run shows the panel to a user only if the user's row
\* of usuarios has the profile 'Administrador' at that moment.
CE_C30 ==
    [][\A u \in Usuarios :
          (sessoes'[u].painel /\ ~sessoes[u].painel) =>
              bd.usuarios[u] = "Administrador"]_vars

====
